---- MODULE Spec2Model ----
(***************************************************************************)
(* Backup / recovery pipeline of the Quran backend:                        *)
(*   RecoveryService        core/services/recovery.py                      *)
(*   BackupService          core/services/backup.py                        *)
(*   run_daily_backup       core/tasks.py                                  *)
(*   enforce_backup_retention_policy   core/tasks.py                       *)
(*   retry_with_exponential_backoff   core/utils/retry.py                  *)
(* Every external collaborator (object store, key management, pg_dump,     *)
(* psql, the ledger table, the file system) answers nondeterministically   *)
(* with one of the outcomes the calling code distinguishes.                *)
(***************************************************************************)
EXTENDS Integers, Sequences, FiniteSets, TLC

VARIABLES
    \* ---- object store (bucket BACKUP_S3_BUCKET) ----
    s3,            \* key -> NoObject or [checksum |-> stored metadata checksum]
    \* ---- RecoveryService: one call in progress ----
    rPc,           \* position of the call
    rVia,          \* "workflow" (full_recovery_workflow) or "direct" (restore_database)
    rBackupDate,   \* argument backup_date
    rTargetDb,     \* argument target_db
    rSkip,         \* argument skip_confirmation
    rTempDir,      \* local temp_dir: "None", "exists" or "removed"
    rTrace,        \* workflow states entered, in order
    rCompleted,    \* workflow states that completed without error
    rResult,       \* "none", "returned" or "RestoreFailed"
    rExpected,     \* local expected_checksum, read from the stored metadata
    rDigest,       \* SHA-256 of the artifact download_backup fetched ("" before that)
    psqlLog,       \* invocations of the restore utility made by this call
    \* ---- run_daily_backup: the task instance of the current trigger ----
    job,           \* locals and position of the running attempt (see JobStart)
    ledger,        \* BackupStatus rows, in the order they were created
    alerts,        \* critical Sentry events raised by the task
    swallowed,     \* attempts whose "failed" row could not be written (logged only)
    \* ---- retry_with_exponential_backoff: one call of a decorated function ----
    rw,            \* the wrapper's locals and position (see WrapperStart)
    \* ---- enforce_backup_retention_policy: one sweep ----
    sweep,         \* the task's locals and position (see SweepStart)
    \* ---- BackupService.verify_upload_integrity called on its own ----
    vc,            \* the call's arguments and outcome (see VerifyStart)
    \* ---- manage.py restore_from_backup: one invocation of the command ----
    cli,           \* the command's options, locals and position (see CommandStart)
    \* ---- the key of one backup date, as each component derives or reads it ----
    kd,            \* the date, the environment and what was derived (see KeyStart)
    \* ---- BackupStatus.get_success_rate: one call ----
    sr,            \* the table read, the arguments and the locals (see RateStart)
    \* ---- EncryptionService: encrypt_file, then decrypt_file of its result ----
    ef             \* the files, the key material and the outcomes (see EnvelopeStart)

recVars == <<rPc, rVia, rBackupDate, rTargetDb, rSkip, rTempDir, rTrace,
             rCompleted, rResult, rExpected, rDigest, psqlLog>>

bakVars == <<job, ledger, alerts, swallowed>>

retVars == <<sweep>>

verVars == <<vc>>

cliVars == <<cli>>

\* the components that sit on top of the services or beside them
keyVars == <<kd>>

rateVars == <<sr>>

encVars == <<ef>>

toolVars == <<cliVars, keyVars, rateVars, encVars>>

vars == <<s3, recVars, bakVars, rw, retVars, verVars, toolVars>>

----------------------------------------------------------------------------
(* Configuration and input domains *)

\* settings.ENVIRONMENT_NAME (default "production")
Environment == "production"

\* settings.DATABASES["default"]["NAME"] and the staging database derived from it
DbName == "postgres"
StagingDbName == "postgres_staging"

\* values of target_db: the two documented ones and one other string
TargetDbs == {"staging", "production", "prod"}

\* A calendar day: the date part of a datetime
Date(y, m, d) == [y |-> y, m |-> m, d |-> d]

\* A path segment of a key, or the text of a date argument.  kind "ymd" is the
\* text of three decimal fields joined by "-", the year written with four
\* digits and the other two with two (2025-11-06, but also 2025-02-30); kind
\* "ymd_short" is the same with a one-digit month or day written without its
\* leading zero (2025-11-6); the other kinds are the empty text and a word
\* such as "latest".
Seg(kind, y, m, d) == [kind |-> kind, y |-> y, m |-> m, d |-> d]

YmdSeg(y, m, d) == Seg("ymd", y, m, d)

EmptySeg == Seg("empty", 0, 0, 0)

WordSeg == Seg("word", 0, 0, 0)

BackupFile == "db_backup.sql.gz.enc"

\* the format with day and month exchanged ("%Y-%d-%m")
StrftimeDayFirst(date) == YmdSeg(date.y, date.d, date.m)

\* date.strftime("%Y-%m-%d")
Strftime(date) == YmdSeg(date.y, date.m, date.d)

\* the days on which backup runs start
BackupDates == {Date(2025, 10, 13), Date(2025, 11, 21)}

\* the date of a run that has not started
NoDate == Date(0, 0, 0)

\* values of the argument backup_date: the texts of the days that have a backup
BackupDateTexts == {Strftime(d) : d \in BackupDates}

\* backup_date of a call that does not take one
NoDateText == Seg("none", 0, 0, 0)

\* stored checksum metadata values; "" is a missing or empty checksum
Checksums == {"", "c1", "c2"}

\* SHA-256 digests calculate_checksum can return
Digests == {"c1", "c2"}

\* what head_object and list_objects_v2 tell about a key: whether an object
\* is stored there, its "checksum" metadata and its size in bytes
NoObject == [present |-> FALSE, checksum |-> "", size |-> 0]

StoredObject(c) == [present |-> TRUE, checksum |-> c, size |-> 1000]

\* f"{self.environment}/{backup_date}/db_backup.sql.gz.enc"
S3Key(env, date_str) == <<env, date_str, BackupFile>>

\* s3_key="", the key text with no segment
EmptyKey == <<>>

\* BackupService.generate_s3_key(date)
GenerateS3Key(env, date) == S3Key(env, Strftime(date))

Keys == {GenerateS3Key(Environment, d) : d \in BackupDates}

ObjectStates == {NoObject} \cup {StoredObject(c) : c \in Checksums}

----------------------------------------------------------------------------
(* RecoveryService.restore_database: target selection and confirmation gate *)

\* "Determine actual target database"
ActualDb(target_db) ==
    IF target_db = "staging" THEN StagingDbName ELSE DbName

\* the gate with the negation of skip_confirmation lost
GateRejectsWhenSkipping(target_db, skip_confirmation) ==
    target_db = "production" /\ skip_confirmation

\* "Security check: Require confirmation for production restore"
GateRejects(target_db, skip_confirmation) ==
    target_db = "production" /\ ~skip_confirmation

\* The order of the workflow's states
WorkflowOrder ==
    <<"LOCATE", "DOWNLOAD", "DECRYPT", "DECOMPRESS", "RESTORE", "CLEANUP">>

----------------------------------------------------------------------------
(* RecoveryService: the calls and their steps *)

\* An operator (or any caller) starts full_recovery_workflow
full_recovery_workflow_call ==
    /\ rPc \in {"idle", "done"}
    /\ \E d \in BackupDateTexts, t \in TargetDbs, k \in BOOLEAN :
        /\ rBackupDate' = d
        /\ rTargetDb' = t
        /\ rSkip' = k
    /\ rVia' = "workflow"
    /\ rPc' = "locate"
    /\ rTempDir' = "None"
    /\ rTrace' = <<>>
    /\ rCompleted' = {}
    /\ rResult' = "none"
    /\ rExpected' = ""
    /\ rDigest' = ""
    /\ psqlLog' = <<>>
    /\ UNCHANGED <<s3, rw, bakVars, retVars, verVars, toolVars>>

\* A caller invokes restore_database on an existing SQL file
restore_database_call ==
    /\ rPc \in {"idle", "done"}
    /\ \E t \in TargetDbs, k \in BOOLEAN :
        /\ rTargetDb' = t
        /\ rSkip' = k
    /\ rBackupDate' = NoDateText
    /\ rVia' = "direct"
    /\ rPc' = "restore"
    /\ rTempDir' = "None"
    /\ rTrace' = <<>>
    /\ rCompleted' = {}
    /\ rResult' = "none"
    /\ rExpected' = ""
    /\ rDigest' = ""
    /\ psqlLog' = <<>>
    /\ UNCHANGED <<s3, rw, bakVars, retVars, verVars, toolVars>>

\* An exception raised inside the workflow's try block
RaiseInWorkflow ==
    /\ rPc' = "except"

\* LOCATE without the test of the stored checksum
LocateWithoutChecksumTest ==
    /\ rPc = "locate"
    /\ rTrace' = Append(rTrace, "LOCATE")
    /\ LET obj == s3[S3Key(Environment, rBackupDate)] IN
        \/ /\ RaiseInWorkflow
           /\ UNCHANGED <<rCompleted, rExpected>>
        \/ /\ obj.present
           /\ rExpected' = obj.checksum
           /\ rPc' = "mkdtemp"
           /\ rCompleted' = rCompleted \cup {"LOCATE"}
    /\ UNCHANGED <<s3, rw, bakVars, retVars, verVars, toolVars, rDigest, rVia, rBackupDate,
                   rTargetDb, rSkip, rTempDir, rResult, psqlLog>>

\* the confirmation gate evaluated before the backup is looked up
LocateBehindGate ==
    /\ rPc = "locate"
    /\ IF GateRejects(rTargetDb, rSkip)
       THEN /\ rTrace' = Append(rTrace, "RESTORE")
            /\ RaiseInWorkflow
            /\ UNCHANGED <<rCompleted, rExpected>>
       ELSE /\ rTrace' = Append(rTrace, "LOCATE")
            /\ LET obj == s3[S3Key(Environment, rBackupDate)] IN
                \/ /\ RaiseInWorkflow
                   /\ UNCHANGED <<rCompleted, rExpected>>
                \/ /\ obj.present
                   /\ rExpected' = obj.checksum
                   /\ IF obj.checksum = ""
                      THEN /\ RaiseInWorkflow
                           /\ UNCHANGED rCompleted
                      ELSE /\ rPc' = "mkdtemp"
                           /\ rCompleted' = rCompleted \cup {"LOCATE"}
    /\ UNCHANGED <<s3, rw, bakVars, retVars, verVars, toolVars, rDigest, rVia, rBackupDate,
                   rTargetDb, rSkip, rTempDir, rResult, psqlLog>>

\* Step 1: head_object on the derived key, then the stored checksum
Locate ==
    /\ rPc = "locate"
    /\ rTrace' = Append(rTrace, "LOCATE")
    /\ LET obj == s3[S3Key(Environment, rBackupDate)] IN
        \/ \* ClientError: the object is missing, or the call failed
           /\ RaiseInWorkflow
           /\ UNCHANGED <<rCompleted, rExpected>>
        \/ /\ obj.present
           /\ rExpected' = obj.checksum
           /\ IF obj.checksum = ""
              THEN /\ RaiseInWorkflow          \* "No checksum found in S3 metadata"
                   /\ UNCHANGED rCompleted
              ELSE /\ rPc' = "mkdtemp"
                   /\ rCompleted' = rCompleted \cup {"LOCATE"}
    /\ UNCHANGED <<s3, rw, bakVars, retVars, verVars, toolVars, rDigest, rVia, rBackupDate, rTargetDb, rSkip, rTempDir, rResult, psqlLog>>

\* Step 2: tempfile.mkdtemp(prefix="quran_restore_")
Mkdtemp ==
    /\ rPc = "mkdtemp"
    /\ \/ /\ rTempDir' = "exists"
          /\ rPc' = "download"
       \/ /\ RaiseInWorkflow                   \* OSError
          /\ UNCHANGED rTempDir
    /\ UNCHANGED <<s3, rw, bakVars, retVars, verVars, toolVars, rExpected, rDigest, rVia, rBackupDate, rTargetDb, rSkip, rTrace, rCompleted,
                   rResult, psqlLog>>

\* A workflow step that touches only external services and the temp directory
WorkflowStep(pc, name, next) ==
    /\ rPc = pc
    /\ rTrace' = Append(rTrace, name)
    /\ \/ /\ rPc' = next
          /\ rCompleted' = rCompleted \cup {name}
       \/ /\ RaiseInWorkflow                   \* RestoreFailedError
          /\ UNCHANGED rCompleted
    /\ UNCHANGED <<s3, rw, bakVars, retVars, verVars, toolVars, rExpected, rDigest, rVia, rBackupDate, rTargetDb, rSkip, rTempDir, rResult, psqlLog>>

\* the download served although the object is gone
download_backup_of_missing_object ==
    /\ rPc = "download"
    /\ rTrace' = Append(rTrace, "DOWNLOAD")
    /\ \/ /\ \E d \in Digests : rDigest' = d
          /\ rPc' = "decrypt"
          /\ rCompleted' = rCompleted \cup {"DOWNLOAD"}
       \/ /\ RaiseInWorkflow
          /\ UNCHANGED <<rCompleted, rDigest>>
    /\ UNCHANGED <<s3, rw, bakVars, retVars, verVars, toolVars, rExpected, rVia, rBackupDate,
                   rTargetDb, rSkip, rTempDir, rResult, psqlLog>>

\* Step 3: download_file writes the object's bytes to the temp directory.  The
\* checksum metadata is a separate attribute of the object, so the digest of
\* the bytes received is any digest, equal to the stored checksum or not.
download_backup ==
    /\ rPc = "download"
    /\ rTrace' = Append(rTrace, "DOWNLOAD")
    /\ \/ /\ s3[S3Key(Environment, rBackupDate)].present
          /\ \E d \in Digests : rDigest' = d
          /\ rPc' = "decrypt"
          /\ rCompleted' = rCompleted \cup {"DOWNLOAD"}
       \/ /\ RaiseInWorkflow                   \* ClientError -> RestoreFailedError
          /\ UNCHANGED <<rCompleted, rDigest>>
    /\ UNCHANGED <<s3, rw, bakVars, retVars, verVars, toolVars, rExpected, rVia, rBackupDate,
                   rTargetDb, rSkip, rTempDir, rResult, psqlLog>>

\* decryption handing its output straight to the restore step
decrypt_backup_then_restore == WorkflowStep("decrypt", "DECRYPT", "restore")

\* decryption followed by the integrity verification of the decrypted file
decrypt_backup_then_verify ==
    /\ rPc = "decrypt"
    /\ \/ /\ rDigest = rExpected
          /\ rTrace' = rTrace \o <<"DECRYPT", "VERIFY">>
          /\ rCompleted' = rCompleted \cup {"DECRYPT", "VERIFY"}
          /\ rPc' = "decompress"
       \/ /\ rTrace' = Append(rTrace, "DECRYPT")
          /\ RaiseInWorkflow
          /\ UNCHANGED rCompleted
    /\ UNCHANGED <<s3, rw, bakVars, retVars, verVars, toolVars, rExpected, rDigest, rVia,
                   rBackupDate, rTargetDb, rSkip, rTempDir, rResult, psqlLog>>

\* Step 4
decrypt_backup == WorkflowStep("decrypt", "DECRYPT", "decompress")

\* Step 6 (step 5, verify_backup_integrity, is commented out in the source)
decompress_backup == WorkflowStep("decompress", "DECOMPRESS", "restore")

\* restore_database raised RestoreFailedError (or let another error through)
RestoreRaises ==
    IF rVia = "workflow"
    THEN /\ RaiseInWorkflow
         /\ UNCHANGED rResult
    ELSE /\ rPc' = "done"
         /\ rResult' = "RestoreFailed"

\* restore_database up to the confirmation gate
restore_database_gate ==
    /\ rPc = "restore"
    /\ rTrace' = Append(rTrace, "RESTORE")
    /\ IF GateRejects(rTargetDb, rSkip)
       THEN RestoreRaises
       ELSE /\ rPc' = "psql"
            /\ UNCHANGED rResult
    /\ UNCHANGED <<s3, rw, bakVars, retVars, verVars, toolVars, rExpected, rDigest, rVia, rBackupDate, rTargetDb, rSkip, rTempDir,
                   rCompleted, psqlLog>>

\* restore_database: subprocess.run(["psql", ...], timeout=3600, check=True)
restore_database_psql ==
    /\ rPc = "psql"
    /\ psqlLog' = Append(psqlLog,
                         [dbname |-> ActualDb(rTargetDb),
                          skip_confirmation |-> rSkip,
                          after |-> rCompleted])
    /\ \/ \* exit status 0
          /\ rCompleted' = rCompleted \cup {"RESTORE"}
          /\ IF rVia = "workflow"
             THEN /\ rPc' = "cleanup"
                  /\ UNCHANGED rResult
             ELSE /\ rPc' = "done"
                  /\ rResult' = "returned"
       \/ \* TimeoutExpired or CalledProcessError
          /\ RestoreRaises
          /\ UNCHANGED rCompleted
    /\ UNCHANGED <<s3, rw, bakVars, retVars, verVars, toolVars, rExpected, rDigest, rVia, rBackupDate, rTargetDb, rSkip, rTempDir, rTrace>>

\* if temp_dir and os.path.exists(temp_dir): shutil.rmtree(temp_dir)
RemoveTempDir(dir) ==
    IF dir = "exists" THEN "removed" ELSE dir

\* "Cleanup" on the success path, then return
workflow_cleanup ==
    /\ rPc = "cleanup"
    /\ rTrace' = Append(rTrace, "CLEANUP")
    /\ rTempDir' = RemoveTempDir(rTempDir)
    /\ rCompleted' = rCompleted \cup {"CLEANUP"}
    /\ rResult' = "returned"
    /\ rPc' = "done"
    /\ UNCHANGED <<s3, rw, bakVars, retVars, verVars, toolVars, rExpected, rDigest, rVia, rBackupDate, rTargetDb, rSkip, psqlLog>>

\* the except block without its "Cleanup on failure"
workflow_except_without_cleanup ==
    /\ rPc = "except"
    /\ rTrace' = Append(rTrace, "CLEANUP")
    /\ rCompleted' = rCompleted \cup {"CLEANUP"}
    /\ rResult' = "RestoreFailed"
    /\ rPc' = "done"
    /\ UNCHANGED <<s3, rw, bakVars, retVars, verVars, toolVars, rExpected, rDigest, rVia, rBackupDate, rTargetDb, rSkip, rTempDir, psqlLog>>

\* except Exception: "Cleanup on failure", then raise RestoreFailedError
workflow_except ==
    /\ rPc = "except"
    /\ rTrace' = Append(rTrace, "CLEANUP")
    /\ rTempDir' = RemoveTempDir(rTempDir)
    /\ rCompleted' = rCompleted \cup {"CLEANUP"}
    /\ rResult' = "RestoreFailed"
    /\ rPc' = "done"
    /\ UNCHANGED <<s3, rw, bakVars, retVars, verVars, toolVars, rExpected, rDigest, rVia, rBackupDate, rTargetDb, rSkip, psqlLog>>

RecoveryInit ==
    /\ rPc = "idle"
    /\ rVia = "workflow"
    /\ rBackupDate = NoDateText
    /\ rTargetDb = "staging"
    /\ rSkip = FALSE
    /\ rTempDir = "None"
    /\ rTrace = <<>>
    /\ rCompleted = {}
    /\ rResult = "none"
    /\ rExpected = ""
    /\ rDigest = ""
    /\ psqlLog = <<>>

RecoveryNext ==
    \/ full_recovery_workflow_call
    \/ restore_database_call
    \/ Locate
    \/ Mkdtemp
    \/ download_backup
    \/ decrypt_backup
    \/ decompress_backup
    \/ restore_database_gate
    \/ restore_database_psql
    \/ workflow_cleanup
    \/ workflow_except

----------------------------------------------------------------------------
(* run_daily_backup and BackupService.create_backup *)

\* @shared_task(max_retries=1): retries allowed after the first attempt
TaskMaxRetries == 1

\* error_message=str(e)[:500]
ErrorMessageLimit == 500

\* scheduled triggers explored
MaxTriggers == 1

\* lengths of str(e) for the exceptions that reach the task's except block
MsgLens == {40, ErrorMessageLimit, ErrorMessageLimit + 1}

\* The steps of one backup run, in pipeline order
PipelineOrder ==
    <<"dump", "compress", "checksum", "encrypt", "upload", "verify", "ledger">>

Min(a, b) == IF a < b THEN a ELSE b

\* the slice forgotten
TruncateNothing(len) == len

\* str(e)[:500]
Truncate(len) == Min(len, ErrorMessageLimit)

\* The locals of a task attempt at its first line (backup_start, temp_dir = None)
JobStart(trigger, retries, runs, date) ==
    [pc |-> "cb_mkdtemp",      \* position
     trigger |-> trigger,      \* which scheduled trigger this task belongs to
     retries |-> retries,      \* self.request.retries
     runs |-> runs,            \* pipeline executions of this trigger so far
     date |-> date,            \* calendar date generate_s3_key will see
     scratch |-> "None",       \* the directory create_backup allocates
     temp_dir |-> "None",      \* the task's temp_dir variable
     cb |-> "none",            \* outcome of create_backup: none, success, BackupFailed
     exc |-> "none",           \* exception in flight
     msg_len |-> 0,            \* len(str(e)) of the exception in flight
     checksum |-> "",          \* checksum returned by create_backup
     trace |-> <<>>,           \* pipeline steps started
     completed |-> {},         \* pipeline steps completed without error
     result |-> "none"]        \* none, success, failed (returned), raised

JobIdle == [JobStart(0, 0, 0, NoDate) EXCEPT !.pc = "idle"]

\* Celery beat fires the task ('daily-database-backup')
trigger_daily_backup ==
    /\ job.pc \in {"idle", "done"}
    /\ job.trigger < MaxTriggers
    /\ \E d \in BackupDates :
        job' = JobStart(job.trigger + 1, 0, 1, d)
    /\ UNCHANGED <<s3, rw, recVars, retVars, verVars, toolVars, ledger, alerts, swallowed>>

\* an exception leaves create_backup's try block
CbRaise(kind) ==
    job' = [job EXCEPT !.pc = "cb_except", !.exc = kind]

\* an exception raised with the pipeline step `name` started but not completed
CbRaiseIn(name, kind) ==
    job' = [job EXCEPT !.pc = "cb_except", !.exc = kind,
                       !.trace = Append(@, name)]

\* create_backup: tempfile.mkdtemp(prefix="quran_backup_")
create_backup_mkdtemp ==
    /\ job.pc = "cb_mkdtemp"
    /\ \/ job' = [job EXCEPT !.pc = "pg_dump", !.scratch = "exists"]
       \/ CbRaise("OSError")
    /\ UNCHANGED <<s3, rw, recVars, retVars, verVars, toolVars, ledger, alerts, swallowed>>

\* pg_dump run again after a failure
execute_pg_dump_retrying ==
    /\ job.pc = "pg_dump"
    /\ \/ job' = [job EXCEPT !.pc = "compress", !.trace = Append(@, "dump"),
                             !.completed = @ \cup {"dump"}]
       \/ job' = [job EXCEPT !.trace = Append(@, "dump")]
    /\ UNCHANGED <<s3, rw, recVars, retVars, verVars, toolVars, ledger, alerts, swallowed>>

\* Step 1: _execute_pg_dump (subprocess.run, timeout=1800, check=True)
execute_pg_dump ==
    /\ job.pc = "pg_dump"
    /\ \/ job' = [job EXCEPT !.pc = "compress", !.trace = Append(@, "dump"),
                             !.completed = @ \cup {"dump"}]
       \/ CbRaiseIn("dump", "BackupFailedError")     \* TimeoutExpired, converted
       \/ CbRaiseIn("dump", "CalledProcessError")    \* non-zero exit, re-raised
       \/ CbRaiseIn("dump", "OSError")               \* pg_dump or its output missing
    /\ UNCHANGED <<s3, rw, recVars, retVars, verVars, toolVars, ledger, alerts, swallowed>>

\* Step 2: compress_backup
compress_backup ==
    /\ job.pc = "compress"
    /\ \/ job' = [job EXCEPT !.pc = "checksum", !.trace = Append(@, "compress"),
                             !.completed = @ \cup {"compress"}]
       \/ CbRaiseIn("compress", "OSError")
       \/ CbRaiseIn("compress", "Exception")         \* ZeroDivisionError, empty dump
    /\ UNCHANGED <<s3, rw, recVars, retVars, verVars, toolVars, ledger, alerts, swallowed>>

\* Step 3: calculate_checksum
calculate_checksum ==
    /\ job.pc = "checksum"
    /\ \/ \E c \in Digests :
            job' = [job EXCEPT !.pc = "metadata", !.trace = Append(@, "checksum"),
                               !.completed = @ \cup {"checksum"}, !.checksum = c]
       \/ CbRaiseIn("checksum", "OSError")
    /\ UNCHANGED <<s3, rw, recVars, retVars, verVars, toolVars, ledger, alerts, swallowed>>

\* create_backup's result handed to the upload without encrypting it
create_backup_return_then_upload ==
    /\ job.pc = "metadata"
    /\ \/ job' = [job EXCEPT !.pc = "upload", !.cb = "success", !.temp_dir = "set"]
       \/ CbRaise("Exception")
       \/ CbRaise("OSError")
    /\ UNCHANGED <<s3, rw, recVars, retVars, verVars, toolVars, ledger, alerts, swallowed>>

\* Step 4 and the return: get_backup_metadata, getsize; then the task reads
\* backup_result["temp_dir"]
create_backup_return ==
    /\ job.pc = "metadata"
    /\ \/ job' = [job EXCEPT !.pc = "encrypt", !.cb = "success", !.temp_dir = "set"]
       \/ CbRaise("Exception")                       \* database error
       \/ CbRaise("OSError")                         \* getsize
    /\ UNCHANGED <<s3, rw, recVars, retVars, verVars, toolVars, ledger, alerts, swallowed>>

\* Which of create_backup's three except clauses removes the scratch directory:
\* "except OSError" and "except Exception" do, "except CalledProcessError" does not
HandlerCleansUp(kind) == kind \in {"OSError", "Exception", "BackupFailedError"}

\* create_backup's except clauses; each raises BackupFailedError to the task
create_backup_except ==
    /\ job.pc = "cb_except"
    /\ \E n \in MsgLens :
        job' = [job EXCEPT !.pc = "task_except", !.cb = "BackupFailed",
                           !.exc = "BackupFailedError", !.msg_len = n,
                           !.scratch = IF HandlerCleansUp(job.exc)
                                       THEN RemoveTempDir(@) ELSE @]
    /\ UNCHANGED <<s3, rw, recVars, retVars, verVars, toolVars, ledger, alerts, swallowed>>

\* an exception raised in the task's try block with step `name` started
TaskRaiseIn(name, kind) ==
    \E n \in MsgLens :
        job' = [job EXCEPT !.pc = "task_except", !.exc = kind, !.msg_len = n,
                           !.trace = Append(@, name)]

\* a step of the task completing
TaskStepDone(name, next) ==
    job' = [job EXCEPT !.pc = next, !.trace = Append(@, name),
                       !.completed = @ \cup {name}]

\* Step 2 of the task: EncryptionService.encrypt_file
encrypt_file ==
    /\ job.pc = "encrypt"
    /\ \/ TaskStepDone("encrypt", "upload")
       \/ TaskRaiseIn("encrypt", "EncryptionFailedError")
    /\ UNCHANGED <<s3, rw, recVars, retVars, verVars, toolVars, ledger, alerts, swallowed>>

\* Step 3 of the task: generate_s3_key, upload_to_s3 (put_object with Metadata)
upload_to_s3 ==
    /\ job.pc = "upload"
    /\ \/ /\ TaskStepDone("upload", "verify")
          /\ s3' = [s3 EXCEPT ![GenerateS3Key(Environment, job.date)] =
                                  StoredObject(job.checksum)]
       \/ /\ TaskRaiseIn("upload", "BackupFailedError")
          /\ UNCHANGED s3
    /\ UNCHANGED <<rw, recVars, retVars, verVars, toolVars, ledger, alerts, swallowed>>

\* the comparison with the negated test of the stored value lost
VerifyUploadOutcomeIgnoringEmpty(stored_checksum, expected_checksum) ==
    IF stored_checksum # expected_checksum
    THEN "IntegrityCheckFailedError"
    ELSE "True"

\* "if not stored_checksum" and "if stored_checksum != expected_checksum",
\* once head_object has answered
VerifyUploadOutcome(stored_checksum, expected_checksum) ==
    IF stored_checksum = ""
    THEN "IntegrityCheckFailedError"       \* "No checksum found in S3 metadata"
    ELSE IF stored_checksum # expected_checksum
         THEN "IntegrityCheckFailedError"  \* "Checksum mismatch: expected .., got .."
         ELSE "True"

\* Step 4 of the task: verify_upload_integrity (head_object, compare checksums)
verify_upload_integrity ==
    /\ job.pc = "verify"
    /\ LET obj == s3[GenerateS3Key(Environment, job.date)] IN
        \/ TaskRaiseIn("verify", "BackupFailedError")          \* ClientError
        \/ /\ obj.present
           /\ IF VerifyUploadOutcome(obj.checksum, job.checksum) = "True"
              THEN TaskStepDone("verify", "ledger")
              ELSE TaskRaiseIn("verify", "IntegrityCheckFailedError")
    /\ UNCHANGED <<s3, rw, recVars, retVars, verVars, toolVars, ledger, alerts, swallowed>>

\* the success row committed although the create call then raises
record_success_row_then_raise ==
    /\ job.pc = "ledger"
    /\ ledger' = Append(ledger,
            [status |-> "success", trigger |-> job.trigger, run |-> job.runs,
             s3_key |-> GenerateS3Key(Environment, job.date),
             checksum |-> job.checksum, error_len |-> 0])
    /\ \/ TaskStepDone("ledger", "cleanup")
       \/ TaskRaiseIn("ledger", "DatabaseError")
    /\ UNCHANGED <<s3, rw, recVars, retVars, verVars, toolVars, alerts, swallowed>>

\* the row created with the third of STATUS_CHOICES
record_success_in_progress ==
    /\ job.pc = "ledger"
    /\ \/ /\ TaskStepDone("ledger", "cleanup")
          /\ ledger' = Append(ledger,
                [status |-> "in_progress", trigger |-> job.trigger, run |-> job.runs,
                 s3_key |-> GenerateS3Key(Environment, job.date),
                 checksum |-> job.checksum, error_len |-> 0])
       \/ /\ TaskRaiseIn("ledger", "DatabaseError")
          /\ UNCHANGED ledger
    /\ UNCHANGED <<s3, rw, recVars, retVars, verVars, toolVars, alerts, swallowed>>

\* Step 5 of the task: BackupStatus.objects.create(status="success", ...)
record_success ==
    /\ job.pc = "ledger"
    /\ \/ /\ TaskStepDone("ledger", "cleanup")
          /\ ledger' = Append(ledger,
                [status |-> "success", trigger |-> job.trigger, run |-> job.runs,
                 s3_key |-> GenerateS3Key(Environment, job.date),
                 checksum |-> job.checksum, error_len |-> 0])
       \/ /\ TaskRaiseIn("ledger", "DatabaseError")
          /\ UNCHANGED ledger
    /\ UNCHANGED <<s3, rw, recVars, retVars, verVars, toolVars, alerts, swallowed>>

\* the cleanup left out
TaskCleanupSkipped(j) == j.scratch

\* the task's "if temp_dir and os.path.exists(temp_dir): shutil.rmtree(...)"
TaskCleanup(j) ==
    IF j.temp_dir = "set" THEN RemoveTempDir(j.scratch) ELSE j.scratch

\* "Cleanup temporary directory" on the success path, then return
task_cleanup_success ==
    /\ job.pc = "cleanup"
    /\ job' = [job EXCEPT !.pc = "done", !.result = "success",
                          !.scratch = TaskCleanup(job)]
    /\ UNCHANGED <<s3, rw, recVars, retVars, verVars, toolVars, ledger, alerts, swallowed>>

\* the "failed" row carrying the key and checksum of the attempt
task_except_record_keeping_key ==
    /\ job.pc = "task_except"
    /\ \/ /\ ledger' = Append(ledger,
                [status |-> "failed", trigger |-> job.trigger, run |-> job.runs,
                 s3_key |-> GenerateS3Key(Environment, job.date),
                 checksum |-> job.checksum,
                 error_len |-> Truncate(job.msg_len)])
          /\ UNCHANGED swallowed
       \/ /\ swallowed' = swallowed \cup {<<job.trigger, job.runs>>}
          /\ UNCHANGED ledger
    /\ alerts' = alerts \cup {<<job.trigger, job.runs, "task_failed">>}
    /\ job' = [job EXCEPT !.pc = "task_except_cleanup"]
    /\ UNCHANGED <<s3, rw, recVars, retVars, verVars, toolVars>>

\* except Exception: write the "failed" row (a failure of that write is logged
\* and swallowed), then sentry_sdk.capture_exception(e, level="critical")
task_except_record ==
    /\ job.pc = "task_except"
    /\ \/ /\ ledger' = Append(ledger,
                [status |-> "failed", trigger |-> job.trigger, run |-> job.runs,
                 s3_key |-> EmptyKey, checksum |-> "",
                 error_len |-> Truncate(job.msg_len)])
          /\ UNCHANGED swallowed
       \/ /\ swallowed' = swallowed \cup {<<job.trigger, job.runs>>}
          /\ UNCHANGED ledger
    /\ alerts' = alerts \cup {<<job.trigger, job.runs, "task_failed">>}
    /\ job' = [job EXCEPT !.pc = "task_except_cleanup"]
    /\ UNCHANGED <<s3, rw, recVars, retVars, verVars, toolVars>>

\* except Exception: "Cleanup temporary directory on failure"
task_except_cleanup ==
    /\ job.pc = "task_except_cleanup"
    /\ job' = [job EXCEPT !.pc = "task_retry", !.scratch = TaskCleanup(job)]
    /\ UNCHANGED <<s3, rw, recVars, retVars, verVars, toolVars, ledger, alerts, swallowed>>

\* Task.retry: a retry is scheduled unless request.retries + 1 > max_retries
RetriesLeft(retries) == retries + 1 <= TaskMaxRetries

\* raise self.retry(exc=e): reschedule the task, or give up.  Giving up either
\* re-raises e out of the task or raises MaxRetriesExceededError, which the
\* task answers with the "failed after all retries" alert and a failed result.
task_retry ==
    /\ job.pc = "task_retry"
    /\ IF RetriesLeft(job.retries)
       THEN /\ job' = JobStart(job.trigger, job.retries + 1, job.runs + 1, job.date)
            /\ UNCHANGED alerts
       ELSE \/ /\ job' = [job EXCEPT !.pc = "done", !.result = "raised"]
               /\ UNCHANGED alerts
            \/ /\ job' = [job EXCEPT !.pc = "done", !.result = "failed"]
               /\ alerts' = alerts \cup
                       {<<job.trigger, job.runs, "retries_exhausted">>}
    /\ UNCHANGED <<s3, rw, recVars, retVars, verVars, toolVars, ledger, swallowed>>

BackupInit ==
    /\ job = JobIdle
    /\ ledger = <<>>
    /\ alerts = {}
    /\ swallowed = {}

BackupNext ==
    \/ trigger_daily_backup
    \/ create_backup_mkdtemp
    \/ execute_pg_dump
    \/ compress_backup
    \/ calculate_checksum
    \/ create_backup_return
    \/ create_backup_except
    \/ encrypt_file
    \/ upload_to_s3
    \/ verify_upload_integrity
    \/ record_success
    \/ task_cleanup_success
    \/ task_except_record
    \/ task_except_cleanup
    \/ task_retry

----------------------------------------------------------------------------
(* retry_with_exponential_backoff and the service methods it decorates *)

\* largest max_retries explored for an arbitrary decorated function
MaxRetriesExplored == 3

\* @retry_with_exponential_backoff(max_retries=3, delays=(2.0, 4.0, 8.0))
ServiceMaxRetries == 3

\* delays=(2.0, 4.0, 8.0), in milliseconds
ServiceDelays == <<2000, 4000, 8000>>

\* exceptions=(TransientError, NetworkError), the decorator's default
DefaultRetryable == {"TransientError", "NetworkError"}

\* Delay schedules passed in the sources, in milliseconds; every one is non-empty
DelaySchedules ==
    {<<1000, 2000, 4000>>, ServiceDelays, <<500, 1000>>, <<10, 10>>}

\* exception kinds an arbitrary decorated function raises
ExcKinds == {"TransientError", "NetworkError", "ValueError"}

\* the decorated methods of BackupService, RecoveryService, EncryptionService
ServiceFns == {"upload_to_s3", "download_backup", "encrypt_file", "decrypt_file"}

\* What each method's own except clauses turn a ClientError (or any other
\* exception) of the object store or key-management client into
ServiceError(fn) ==
    CASE fn = "upload_to_s3" -> "BackupFailedError"
      [] fn = "download_backup" -> "RestoreFailedError"
      [] fn = "encrypt_file" -> "EncryptionFailedError"
      [] fn = "decrypt_file" -> "EncryptionFailedError"

\* The wrapper's locals at entry (last_exception = None, attempts = 0)
WrapperStart(fn, max_retries, delays, exceptions) ==
    [pc |-> "first",
     fn |-> fn,                    \* "generic" or a member of ServiceFns
     max_retries |-> max_retries,
     delays |-> delays,
     exceptions |-> exceptions,    \* the retryable kinds
     calls |-> 0,                  \* invocations of func
     retry_num |-> 0,
     attempts |-> 0,
     last_exception |-> "None",
     fails |-> <<>>,               \* what each failed invocation raised
     slept |-> <<>>,               \* the delays slept, in order
     result |-> "none",            \* none, returned, raised
     raised |-> "None"]            \* the exception that left the wrapper

WrapperIdle == [WrapperStart("generic", 0, <<1000>>, {}) EXCEPT !.pc = "idle"]

\* A decorated function is called
wrapper_call ==
    /\ rw.pc \in {"idle", "done"}
    /\ \/ \E n \in 0..MaxRetriesExplored, d \in DelaySchedules,
             x \in {DefaultRetryable, {"TransientError"}} :
            rw' = WrapperStart("generic", n, d, x)
       \/ \E fn \in ServiceFns :
            rw' = WrapperStart(fn, ServiceMaxRetries, ServiceDelays, DefaultRetryable)
    /\ UNCHANGED <<s3, recVars, retVars, verVars, toolVars, bakVars>>

\* The exceptions one invocation of func can raise
Raisable(fn) ==
    IF fn \in ServiceFns THEN {ServiceError(fn)} ELSE ExcKinds

\* func(*args, **kwargs) returned
FuncReturns ==
    rw' = [rw EXCEPT !.pc = "done", !.calls = @ + 1, !.result = "returned"]

\* the handler keeping the first exception it saw instead of the latest
FuncRaisesCaughtKeepingFirst(k, attempts, next_retry) ==
    rw' = [rw EXCEPT !.pc = "loop", !.calls = @ + 1, !.fails = Append(@, k),
                     !.last_exception = IF @ = "None" THEN k ELSE @,
                     !.attempts = attempts, !.retry_num = next_retry]

\* func raised k, which "except exceptions" catches
FuncRaisesCaught(k, attempts, next_retry) ==
    rw' = [rw EXCEPT !.pc = "loop", !.calls = @ + 1, !.fails = Append(@, k),
                     !.last_exception = k, !.attempts = attempts,
                     !.retry_num = next_retry]

\* every exception caught as if the handler were "except Exception"
FuncRaisesThroughCaught(k) ==
    rw' = [rw EXCEPT !.pc = "loop", !.calls = @ + 1, !.fails = Append(@, k),
                     !.last_exception = k, !.attempts = @ + 1,
                     !.retry_num = @ + 1]

\* func raised k, which "except exceptions" does not catch
FuncRaisesThrough(k) ==
    rw' = [rw EXCEPT !.pc = "done", !.calls = @ + 1, !.fails = Append(@, k),
                     !.result = "raised", !.raised = k]

\* "First attempt (not a retry)"
wrapper_first_attempt ==
    /\ rw.pc = "first"
    /\ \/ FuncReturns
       \/ \E k \in Raisable(rw.fn) :
            IF k \in rw.exceptions
            THEN FuncRaisesCaught(k, 1, 1)
            ELSE FuncRaisesThrough(k)
    /\ UNCHANGED <<s3, recVars, retVars, verVars, toolVars, bakVars>>

\* the loop running one time too few: range(1, max_retries)
RetryLoopContinuesShort(retry_num, max_retries) == retry_num < max_retries

\* for retry_num in range(1, max_retries + 1)
RetryLoopContinues(retry_num, max_retries) == retry_num <= max_retries

\* the schedule wrapping around instead of repeating its final delay
DelayForWrapping(retry_num, delays) == delays[((retry_num - 1) % Len(delays)) + 1]

\* delays[min(retry_num - 1, len(delays) - 1)], 0-based in the source
DelayFor(retry_num, delays) == delays[Min(retry_num - 1, Len(delays) - 1) + 1]

\* The loop header and time.sleep(delay); after the loop, raise last_exception
wrapper_sleep_or_give_up ==
    /\ rw.pc = "loop"
    /\ IF RetryLoopContinues(rw.retry_num, rw.max_retries)
       THEN rw' = [rw EXCEPT !.pc = "retry",
                             !.slept = Append(@, DelayFor(rw.retry_num, rw.delays))]
       ELSE rw' = [rw EXCEPT !.pc = "done", !.result = "raised",
                             !.raised = rw.last_exception]
    /\ UNCHANGED <<s3, recVars, retVars, verVars, toolVars, bakVars>>

\* "Attempt the function call" inside the loop
wrapper_retry_attempt ==
    /\ rw.pc = "retry"
    /\ \/ FuncReturns
       \/ \E k \in Raisable(rw.fn) :
            IF k \in rw.exceptions
            THEN FuncRaisesCaught(k, rw.retry_num + 1, rw.retry_num + 1)
            ELSE FuncRaisesThrough(k)
    /\ UNCHANGED <<s3, recVars, retVars, verVars, toolVars, bakVars>>

RetryInit ==
    /\ rw = WrapperIdle

RetryNext ==
    \/ wrapper_call
    \/ wrapper_first_attempt
    \/ wrapper_sleep_or_give_up
    \/ wrapper_retry_attempt

----------------------------------------------------------------------------
(* enforce_backup_retention_policy: dates and keys *)

\* BACKUP_RETENTION_DAYS_DAILY
RetentionDaysDaily == 30

\* BACKUP_RETENTION_DAYS_WEEKLY
RetentionDaysWeekly == 90

\* BACKUP_RETENTION_DAYS_MONTHLY
RetentionDaysMonthly == 365

\* objects in the bucket when the first sweep starts, at most
MaxObjects == 3

\* calendar arithmetic of datetime (proleptic Gregorian, ordinal 1 = 0001-01-01)
IsLeap(y) == (y % 4 = 0 /\ y % 100 # 0) \/ y % 400 = 0

DaysInMonth(y, m) ==
    IF m = 2 THEN (IF IsLeap(y) THEN 29 ELSE 28)
    ELSE IF m \in {4, 6, 9, 11} THEN 30 ELSE 31

RECURSIVE DaysBeforeMonth(_, _)
DaysBeforeMonth(y, m) ==
    IF m = 1 THEN 0 ELSE DaysBeforeMonth(y, m - 1) + DaysInMonth(y, m - 1)

DaysBeforeYear(y) ==
    (y - 1) * 365 + ((y - 1) \div 4) - ((y - 1) \div 100) + ((y - 1) \div 400)

ToOrdinal(date) ==
    DaysBeforeYear(date.y) + DaysBeforeMonth(date.y, date.m) + date.d

\* date.weekday(): Monday = 0 .. Sunday = 6
Weekday(date) == (ToOrdinal(date) + 6) % 7

\* the datetime that datetime.strptime(date_str, "%Y-%m-%d") returns
Strptime(seg) == Date(seg.y, seg.m, seg.d)

\* datetime.strptime(date_str, "%Y-%m-%d") succeeds
StrptimeAccepts(seg) ==
    /\ seg.kind \in {"ymd", "ymd_short"}
    /\ seg.y \in 1..9999
    /\ seg.m \in 1..12
    /\ seg.d \in 1..DaysInMonth(seg.y, seg.m)

\* try: s3_key.split("/")[1], strptime; except (IndexError, ValueError)
ParseKeyDate(key) ==
    IF Len(key) < 2
    THEN [valid |-> FALSE, date |-> NoDate]                  \* IndexError
    ELSE IF StrptimeAccepts(key[2])
         THEN [valid |-> TRUE, date |-> Strptime(key[2])]
         ELSE [valid |-> FALSE, date |-> NoDate]             \* ValueError

\* (now - backup_date).days, backup_date being midnight UTC of its day
AgeDays(now, backup_date) == ToOrdinal(now) - ToOrdinal(backup_date)

\* the three rules tested independently of one another
ShouldDeleteAnyRule(backup_date, now) ==
    LET age_days == AgeDays(now, backup_date) IN
        \/ backup_date.d = 1 /\ age_days > RetentionDaysMonthly
        \/ Weekday(backup_date) = 6 /\ age_days > RetentionDaysWeekly
        \/ age_days > RetentionDaysDaily

\* the rules with "at least" in place of "more than"
ShouldDeleteFromLimit(backup_date, now) ==
    LET age_days == AgeDays(now, backup_date) IN
        IF backup_date.d = 1
        THEN age_days >= RetentionDaysMonthly
        ELSE IF Weekday(backup_date) = 6
             THEN age_days >= RetentionDaysWeekly
             ELSE age_days >= RetentionDaysDaily

\* Rule 1 / elif Rule 2 / elif Rule 3
ShouldDelete(backup_date, now) ==
    LET age_days == AgeDays(now, backup_date) IN
        IF backup_date.d = 1
        THEN age_days > RetentionDaysMonthly
        ELSE IF Weekday(backup_date) = 6
             THEN age_days > RetentionDaysWeekly
             ELSE age_days > RetentionDaysDaily

\* the loop leaving at the first key it cannot parse
RECURSIVE BackupsToDeleteUntilInvalid(_, _)
BackupsToDeleteUntilInvalid(contents, now) ==
    IF contents = <<>> THEN <<>>
    ELSE LET obj == Head(contents)
             parsed == ParseKeyDate(obj.Key)
         IN  IF ~parsed.valid
             THEN <<>>
             ELSE IF ShouldDelete(parsed.date, now)
                  THEN <<obj>> \o BackupsToDeleteUntilInvalid(Tail(contents), now)
                  ELSE BackupsToDeleteUntilInvalid(Tail(contents), now)

\* for obj in response["Contents"]: ... backups_to_delete.append((s3_key, size))
RECURSIVE BackupsToDelete(_, _)
BackupsToDelete(contents, now) ==
    IF contents = <<>> THEN <<>>
    ELSE LET obj == Head(contents)
             parsed == ParseKeyDate(obj.Key)
         IN  IF ~parsed.valid
             THEN BackupsToDelete(Tail(contents), now)        \* continue
             ELSE IF ShouldDelete(parsed.date, now)
                  THEN <<obj>> \o BackupsToDelete(Tail(contents), now)
                  ELSE BackupsToDelete(Tail(contents), now)

\* The keys a bucket may hold, in the order list_objects_v2 returns them
\* (ascending by key text)
KeyOrder ==
    << <<"production", EmptySeg>>,
       <<"production", YmdSeg(2024, 11, 1), BackupFile>>,
       <<"production", YmdSeg(2025, 2, 30), BackupFile>>,
       <<"production", YmdSeg(2025, 6, 1), BackupFile>>,
       <<"production", YmdSeg(2025, 8, 3), BackupFile>>,
       <<"production", YmdSeg(2025, 10, 2), BackupFile>>,
       <<"production", YmdSeg(2025, 10, 13), BackupFile>>,
       <<"production", YmdSeg(2025, 10, 14), BackupFile>>,
       <<"production", YmdSeg(2025, 10, 15), BackupFile>>,
       <<"production", YmdSeg(2025, 10, 16), BackupFile>>,
       <<"production", YmdSeg(2025, 10, 17), BackupFile>>,
       <<"production", YmdSeg(2025, 11, 1), BackupFile>>,
       <<"production", YmdSeg(2025, 11, 2), BackupFile>>,
       <<"production", YmdSeg(2025, 11, 17), BackupFile>>,
       <<"production", YmdSeg(2025, 11, 18), BackupFile>>,
       <<"production", YmdSeg(2025, 11, 19), BackupFile>>,
       <<"production", YmdSeg(2025, 11, 20), BackupFile>>,
       <<"production", YmdSeg(2025, 11, 21), BackupFile>>,
       <<"production", YmdSeg(2025, 11, 22), BackupFile>>,
       <<"production", YmdSeg(2025, 13, 1), BackupFile>>,
       <<"production", WordSeg, BackupFile>>,
       <<"staging", YmdSeg(2025, 10, 13), BackupFile>> >>

RetentionKeys == {KeyOrder[i] : i \in 1..Len(KeyOrder)}

\* values of datetime.now(UTC), as calendar days: a Saturday that is the 1st,
\* the Sunday after it, and a Friday
NowDates == {Date(2025, 11, 1), Date(2025, 11, 2), Date(2025, 11, 21)}

\* an object as list_objects_v2 and head_object describe it
RetainedObject(size) == [StoredObject("c1") EXCEPT !.size = size]

\* the size in bytes of the object first stored under KeyOrder[i]
InitialSize(i) == 1000 + i

\* list_objects_v2(Bucket, Prefix=f"{environment}/")["Contents"]
RECURSIVE ListFrom(_, _, _)
ListFrom(store, env, i) ==
    IF i > Len(KeyOrder) THEN <<>>
    ELSE LET k == KeyOrder[i] IN
         IF store[k].present /\ Len(k) >= 2 /\ k[1] = env
         THEN <<[Key |-> k, Size |-> store[k].size]>> \o ListFrom(store, env, i + 1)
         ELSE ListFrom(store, env, i + 1)

ListObjects(store, env) == ListFrom(store, env, 1)

----------------------------------------------------------------------------
(* enforce_backup_retention_policy: the sweep *)

\* The task's locals before its first line has run
SweepIdle ==
    [pc |-> "idle",
     now |-> Date(2025, 11, 1),    \* datetime.now(UTC), a calendar day
     contents |-> <<>>,            \* response["Contents"]
     backups_to_delete |-> <<>>,
     next |-> 1,                   \* position of the second loop
     deleted_count |-> 0,
     reclaimed_space |-> 0,        \* bytes
     attempted |-> <<>>,           \* keys delete_object was called with
     removed |-> <<>>,             \* entries whose delete_object returned
     result |-> [status |-> "none", deleted_count |-> 0, reclaimed_space |-> 0]]

\* The locals once the listing was read and the first loop has run
SweepStart(now, contents) ==
    [SweepIdle EXCEPT !.pc = "delete", !.now = now, !.contents = contents,
                      !.backups_to_delete = BackupsToDelete(contents, now)]

\* Celery beat fires the task ('weekly-backup-cleanup'): now, list_objects_v2,
\* the early return for an empty listing, and the first loop
retention_start ==
    /\ sweep.pc \in {"idle", "done"}
    /\ \E n \in NowDates :
        /\ ToOrdinal(n) >= ToOrdinal(sweep.now)
        /\ \/ \* list_objects_v2 raised
              sweep' = [SweepIdle EXCEPT !.pc = "except", !.now = n]
           \/ LET contents == ListObjects(s3, Environment) IN
                IF contents = <<>>
                THEN sweep' = [SweepIdle EXCEPT
                                 !.pc = "done", !.now = n,
                                 !.result = [status |-> "success",
                                             deleted_count |-> 0,
                                             reclaimed_space |-> 0]]
                ELSE sweep' = SweepStart(n, contents)
    /\ UNCHANGED <<s3, rw, recVars, bakVars, verVars, toolVars>>

\* One pass of "for s3_key, size_bytes in backups_to_delete": delete_object
\* returns, raises ClientError (logged, the loop goes on), or raises another
\* exception, which leaves the loop for the task's "except Exception"
retention_delete ==
    /\ sweep.pc = "delete"
    /\ sweep.next <= Len(sweep.backups_to_delete)
    /\ LET obj == sweep.backups_to_delete[sweep.next] IN
        \/ /\ s3' = [s3 EXCEPT ![obj.Key] = NoObject]
           /\ sweep' = [sweep EXCEPT !.next = @ + 1,
                                     !.attempted = Append(@, obj.Key),
                                     !.removed = Append(@, obj),
                                     !.deleted_count = @ + 1,
                                     !.reclaimed_space = @ + obj.Size]
        \/ /\ sweep' = [sweep EXCEPT !.next = @ + 1,
                                     !.attempted = Append(@, obj.Key)]
           /\ UNCHANGED s3
        \/ /\ sweep' = [sweep EXCEPT !.pc = "except",
                                     !.attempted = Append(@, obj.Key)]
           /\ UNCHANGED s3
    /\ UNCHANGED <<rw, recVars, bakVars, verVars, toolVars>>

\* after the second loop: the info message and the "success" result
retention_return ==
    /\ sweep.pc = "delete"
    /\ sweep.next > Len(sweep.backups_to_delete)
    /\ sweep' = [sweep EXCEPT !.pc = "done",
                              !.result = [status |-> "success",
                                          deleted_count |-> sweep.deleted_count,
                                          reclaimed_space |-> sweep.reclaimed_space]]
    /\ UNCHANGED <<s3, rw, recVars, bakVars, verVars, toolVars>>

\* except Exception: the "failed" result with both counters reported as 0
retention_except ==
    /\ sweep.pc = "except"
    /\ sweep' = [sweep EXCEPT !.pc = "done",
                              !.result = [status |-> "failed",
                                          deleted_count |-> 0,
                                          reclaimed_space |-> 0]]
    /\ UNCHANGED <<s3, rw, recVars, bakVars, verVars, toolVars>>

RetentionInit ==
    /\ sweep = SweepIdle

RetentionNext ==
    \/ retention_start
    \/ retention_delete
    \/ retention_return
    \/ retention_except

----------------------------------------------------------------------------
(* BackupService.verify_upload_integrity called on its own *)

\* The call before head_object has answered
VerifyStart(key, expected) ==
    [pc |-> "head",
     s3_key |-> key,
     expected_checksum |-> expected,
     result |-> "none",            \* none, True, or the exception raised
     carried |-> <<>>]             \* the values named in the exception

VerifyIdle == [VerifyStart(GenerateS3Key(Environment, Date(2025, 11, 21)), "") EXCEPT !.pc = "idle"]

\* a caller invokes verify_upload_integrity(s3_key, expected_checksum)
verify_upload_integrity_call ==
    /\ vc.pc \in {"idle", "done"}
    /\ \E k \in Keys, c \in Checksums : vc' = VerifyStart(k, c)
    /\ UNCHANGED <<s3, rw, recVars, bakVars, retVars, toolVars>>

\* the body of verify_upload_integrity: head_object, the two tests, and the
\* conversion of ClientError (a missing object included) into BackupFailedError
verify_upload_integrity_run ==
    /\ vc.pc = "head"
    /\ LET obj == s3[vc.s3_key] IN
        \/ vc' = [vc EXCEPT !.pc = "done", !.result = "BackupFailedError"]
        \/ /\ obj.present
           /\ LET outcome == VerifyUploadOutcome(obj.checksum, vc.expected_checksum) IN
                vc' = [vc EXCEPT
                         !.pc = "done",
                         !.result = outcome,
                         !.carried = IF outcome = "True" \/ obj.checksum = ""
                                     THEN <<>>
                                     ELSE <<vc.expected_checksum, obj.checksum>>]
    /\ UNCHANGED <<s3, rw, recVars, bakVars, retVars, toolVars>>

VerifyInit ==
    /\ vc = VerifyIdle

VerifyNext ==
    \/ verify_upload_integrity_call
    \/ verify_upload_integrity_run

----------------------------------------------------------------------------
(* manage.py restore_from_backup: the operator's command *)

\* values of --date: the texts of the days that have a backup, a text strptime
\* rejects and a word
CommandDates == BackupDateTexts \cup {YmdSeg(2025, 2, 30), WordSeg}

\* choices=['staging', 'production']
CommandTargets == {"staging", "production"}

\* what the operator types at the prompt
TypedInputs == {"RESTORE PRODUCTION", "restore production", "RESTORE PRODUCTION ", "yes", ""}

\* The command's options and locals when handle() is entered
CommandStart(date, target, skip, list) ==
    [pc |-> "start",
     date |-> date,                \* options['date']
     target |-> target,            \* options['target']
     skip_flag |-> skip,           \* options['skip_confirmation']
     list |-> list,                \* options['list']
     skip_confirmation |-> skip,   \* the local handed to the workflow
     typed |-> "none",             \* what input() returned, "none" if not asked
     listed |-> FALSE,             \* list_available_backups was called
     result |-> "none"]            \* none, returned, cancelled, restored or the
                                   \* exception that left handle()

CommandIdle == [CommandStart(WordSeg, "staging", FALSE, FALSE) EXCEPT !.pc = "idle"]

\* the operator runs the command; handle() builds a new RecoveryService
handle_call ==
    /\ cli.pc \in {"idle", "done"}
    /\ rPc \in {"idle", "done"}
    /\ \E d \in CommandDates, t \in CommandTargets, k \in BOOLEAN, l \in BOOLEAN :
        cli' = CommandStart(d, t, k, l)
    /\ rPc' = "idle"
    /\ rVia' = "workflow"
    /\ rBackupDate' = NoDateText
    /\ rTargetDb' = "staging"
    /\ rSkip' = FALSE
    /\ rTempDir' = "None"
    /\ rTrace' = <<>>
    /\ rCompleted' = {}
    /\ rResult' = "none"
    /\ rExpected' = ""
    /\ rDigest' = ""
    /\ psqlLog' = <<>>
    /\ UNCHANGED <<s3, rw, bakVars, retVars, verVars, keyVars, rateVars, encVars>>

\* "Handle --list flag": list_available_backups, print, return
handle_list ==
    /\ cli.pc = "start"
    /\ cli.list
    /\ \/ cli' = [cli EXCEPT !.pc = "done", !.listed = TRUE, !.result = "returned"]
       \/ cli' = [cli EXCEPT !.pc = "done", !.listed = TRUE,
                             !.result = "RestoreFailedError"]
    /\ UNCHANGED <<s3, rw, recVars, bakVars, retVars, verVars, keyVars, rateVars, encVars>>

\* "Validate date format", then the test that decides whether to prompt
handle_validate ==
    /\ cli.pc = "start"
    /\ ~cli.list
    /\ cli' = IF ~StrptimeAccepts(cli.date)
              THEN [cli EXCEPT !.pc = "done", !.result = "CommandError"]
              ELSE IF cli.target = "production" /\ ~cli.skip_confirmation
                   THEN [cli EXCEPT !.pc = "prompt"]
                   ELSE [cli EXCEPT !.pc = "execute"]
    /\ UNCHANGED <<s3, rw, recVars, bakVars, retVars, verVars, keyVars, rateVars, encVars>>

\* the typed phrase taken as the confirmation the service asks for
handle_prompt_confirming ==
    /\ cli.pc = "prompt"
    /\ \/ \E t \in TypedInputs :
            cli' = IF t # "RESTORE PRODUCTION"
                   THEN [cli EXCEPT !.pc = "done", !.typed = t, !.result = "cancelled"]
                   ELSE [cli EXCEPT !.pc = "execute", !.typed = t,
                                    !.skip_confirmation = TRUE]
       \/ cli' = [cli EXCEPT !.pc = "done", !.result = "EOFError"]
    /\ UNCHANGED <<s3, rw, recVars, bakVars, retVars, verVars, keyVars, rateVars, encVars>>

\* confirm = input(...); if confirm != 'RESTORE PRODUCTION': return
handle_prompt ==
    /\ cli.pc = "prompt"
    /\ \/ \E t \in TypedInputs :
            cli' = IF t # "RESTORE PRODUCTION"
                   THEN [cli EXCEPT !.pc = "done", !.typed = t, !.result = "cancelled"]
                   ELSE [cli EXCEPT !.pc = "execute", !.typed = t]
       \/ cli' = [cli EXCEPT !.pc = "done", !.result = "EOFError"]   \* no terminal
    /\ UNCHANGED <<s3, rw, recVars, bakVars, retVars, verVars, keyVars, rateVars, encVars>>

\* "Execute restoration": the call of full_recovery_workflow
handle_execute ==
    /\ cli.pc = "execute"
    /\ rPc = "idle"
    /\ cli' = [cli EXCEPT !.pc = "workflow"]
    /\ rBackupDate' = cli.date
    /\ rTargetDb' = cli.target
    /\ rSkip' = cli.skip_confirmation
    /\ rVia' = "workflow"
    /\ rPc' = "locate"
    /\ UNCHANGED <<s3, rw, bakVars, retVars, verVars, keyVars, rateVars, encVars, rTempDir, rTrace, rCompleted,
                   rResult, rExpected, rDigest, psqlLog>>

\* the workflow returned its dict, or raised ("except Exception as e")
handle_finish ==
    /\ cli.pc = "workflow"
    /\ rPc = "done"
    /\ cli' = [cli EXCEPT !.pc = "done",
                          !.result = IF rResult = "returned" THEN "restored"
                                     ELSE "CommandError"]
    /\ UNCHANGED <<s3, rw, recVars, bakVars, retVars, verVars, keyVars, rateVars, encVars>>

CommandInit == cli = CommandIdle

CommandNext ==
    \/ handle_call
    \/ handle_list
    \/ handle_validate
    \/ handle_prompt
    \/ handle_execute
    \/ handle_finish

\* the steps of a full_recovery_workflow call that has been started
WorkflowNext ==
    \/ Locate
    \/ Mkdtemp
    \/ download_backup
    \/ decrypt_backup
    \/ decompress_backup
    \/ restore_database_gate
    \/ restore_database_psql
    \/ workflow_cleanup
    \/ workflow_except

----------------------------------------------------------------------------
(* The key of a backup date: generate_s3_key, LOCATE, the sweep, the listing *)

\* values of settings.ENVIRONMENT_NAME: names of one path segment
Environments == {"production", "staging", "local"}

\* values of the date generate_s3_key formats: first and last days of months
\* and years, one- and two-digit days and months, a leap day
KeyDates ==
    {Date(y, m, d) : y \in {2024, 2025}, m \in {1, 2, 9, 10, 11, 12}, d \in {1, 6, 10, 28}}
        \cup {Date(2024, 2, 29), Date(2025, 12, 31), Date(1000, 1, 1), Date(9999, 12, 31)}

\* the text of a date with a one-digit month or day written without its zero
ShortText(date) ==
    IF date.m >= 10 /\ date.d >= 10
    THEN YmdSeg(date.y, date.m, date.d)
    ELSE Seg("ymd_short", date.y, date.m, date.d)

\* the texts an operator may write for the day `date`
DateTexts(date) == {Strftime(date), ShortText(date)}

\* list_available_backups: date_str = s3_key.split("/")[1], strptime, and the
\* entry's "date"; except (IndexError, ValueError): skip
ListingEntry(key) ==
    IF Len(key) < 2
    THEN [valid |-> FALSE, backup_date |-> NoDate, date |-> EmptySeg]
    ELSE IF StrptimeAccepts(key[2])
         THEN [valid |-> TRUE, backup_date |-> Strptime(key[2]), date |-> key[2]]
         ELSE [valid |-> FALSE, backup_date |-> NoDate, date |-> EmptySeg]

\* The record of one date's key before anything was derived
KeyStart(env, date) ==
    [pc |-> "generate",
     env |-> env,                  \* self.environment / environment
     date |-> date,                \* the date of the backup
     key |-> EmptyKey,             \* generate_s3_key(date)
     backup_date |-> EmptySeg,     \* the argument of full_recovery_workflow
     locate_key |-> EmptyKey,      \* the key LOCATE derives from it
     swept |-> [valid |-> FALSE, date |-> NoDate],   \* the sweep's parse of key
     listed |-> ListingEntry(EmptyKey)]              \* the listing's parse of key

KeyIdle == [KeyStart("production", NoDate) EXCEPT !.pc = "idle"]

\* a backup of some day, in some environment
key_call ==
    /\ kd.pc \in {"idle", "done"}
    /\ \E e \in Environments, d \in KeyDates : kd' = KeyStart(e, d)
    /\ UNCHANGED <<s3, rw, recVars, bakVars, retVars, verVars, cliVars, rateVars, encVars>>

\* the backup task: s3_key = backup_service.generate_s3_key()
key_generate ==
    /\ kd.pc = "generate"
    /\ kd' = [kd EXCEPT !.pc = "locate", !.key = GenerateS3Key(kd.env, kd.date)]
    /\ UNCHANGED <<s3, rw, recVars, bakVars, retVars, verVars, cliVars, rateVars, encVars>>

\* recovery: the operator names the day, LOCATE derives the key
key_locate ==
    /\ kd.pc = "locate"
    /\ \E t \in DateTexts(kd.date) :
        kd' = [kd EXCEPT !.pc = "parse", !.backup_date = t,
                         !.locate_key = S3Key(kd.env, t)]
    /\ UNCHANGED <<s3, rw, recVars, bakVars, retVars, verVars, cliVars, rateVars, encVars>>

\* the sweep and the listing read the date back from the generated key
key_parse ==
    /\ kd.pc = "parse"
    /\ kd' = [kd EXCEPT !.pc = "done",
                        !.swept = ParseKeyDate(kd.key),
                        !.listed = ListingEntry(kd.key)]
    /\ UNCHANGED <<s3, rw, recVars, bakVars, retVars, verVars, cliVars, rateVars, encVars>>

KeyInit == kd = KeyIdle

KeyNext ==
    \/ key_call
    \/ key_generate
    \/ key_locate
    \/ key_parse

----------------------------------------------------------------------------
(* BackupStatus.get_success_rate *)

\* rows in the table read by one call, at most (the ten-row table aside)
MaxRows == 3

\* hours in timedelta(days=1)
HoursPerDay == 24

\* values of the argument days
WindowDays == {7, 30}

\* datetime.now(UTC) of the call, in hours; the rows were written before it
RateNow == 0

\* ages of rows, in hours: just written, and on both sides of each cutoff
RowAges == {0, 7 * HoursPerDay, 7 * HoursPerDay + 1, 30 * HoursPerDay, 30 * HoursPerDay + 1}

\* a row of the table: backup_date and status
RateRow(age, status) == [backup_date |-> RateNow - age, status |-> status]

RateRows == {RateRow(a, st) : a \in RowAges, st \in {"success", "failed"}}

\* seven successful rows of the last seven days and three failed ones of ten to
\* twelve days ago
TenRowTable ==
    [i \in 1..10 |->
        IF i <= 7 THEN RateRow((i - 1) * HoursPerDay, "success")
        ELSE RateRow((i + 2) * HoursPerDay, "failed")]

RateTables ==
    UNION {[1..n -> RateRows] : n \in 0..MaxRows} \cup {TenRowTable}

\* objects.filter(backup_date__gte=cutoff).count()
CountInWindow(table, cutoff) ==
    Cardinality({i \in 1..Len(table) : table[i].backup_date >= cutoff})

\* the count of successful rows taken over the whole table
CountSuccessfulOfAnyDate(table, cutoff) ==
    Cardinality({i \in 1..Len(table) : table[i].status = "success"})

\* objects.filter(backup_date__gte=cutoff, status="success").count()
CountSuccessfulInWindow(table, cutoff) ==
    Cardinality({i \in 1..Len(table) :
                    table[i].backup_date >= cutoff /\ table[i].status = "success"})

\* a float that is the quotient of two integers, kept as that quotient
Quotient(num, den) == [num |-> num, den |-> den]

\* The call's locals before its first query
RateStart(table, days) ==
    [pc |-> "total",
     table |-> table,              \* the rows of BackupStatus
     days |-> days,
     cutoff |-> 0,
     total |-> 0,
     successful |-> 0,
     result |-> Quotient(0, 1)]

RateIdle == [RateStart(<<>>, 30) EXCEPT !.pc = "idle"]

\* a caller asks for the rate of the table as it stands
get_success_rate_call ==
    /\ sr.pc = "idle"
    /\ \E t \in RateTables, n \in WindowDays : sr' = RateStart(t, n)
    /\ UNCHANGED <<s3, rw, recVars, bakVars, retVars, verVars, cliVars, keyVars, encVars>>

\* cutoff, the first count, "if total == 0: return 0.0"
get_success_rate_total ==
    /\ sr.pc = "total"
    /\ LET cutoff == RateNow - sr.days * HoursPerDay
           total == CountInWindow(sr.table, cutoff)
       IN  sr' = [sr EXCEPT !.cutoff = cutoff, !.total = total,
                            !.pc = IF total = 0 THEN "done" ELSE "successful",
                            !.result = Quotient(0, 1)]
    /\ UNCHANGED <<s3, rw, recVars, bakVars, retVars, verVars, cliVars, keyVars, encVars>>

\* the second count, "return (successful / total) * 100"
get_success_rate_successful ==
    /\ sr.pc = "successful"
    /\ LET successful == CountSuccessfulInWindow(sr.table, sr.cutoff) IN
        sr' = [sr EXCEPT !.successful = successful, !.pc = "done",
                         !.result = Quotient(successful * 100, sr.total)]
    /\ UNCHANGED <<s3, rw, recVars, bakVars, retVars, verVars, cliVars, keyVars, encVars>>

RateInit == sr = RateIdle

RateNext ==
    \/ get_success_rate_call
    \/ get_success_rate_total
    \/ get_success_rate_successful

----------------------------------------------------------------------------
(* EncryptionService: envelope encryption of a file *)

\* longest plaintext explored, in bytes
MaxPlainLen == 33

\* AES block size in bytes: padding.PKCS7(128)
BlockSize == 16

\* secrets.token_bytes(16)
IvLength == 16

\* KeySpec="AES_256": a data key of 32 bytes
KeyLength == 32

\* the byte at position i of a plaintext of the given pattern: text, bytes of
\* value 1 and bytes of value 16 (both of which also occur as padding)
PatternByte(pattern, i) ==
    IF pattern = "text" THEN 65 + (i % 26)
    ELSE IF pattern = "ones" THEN 1
    ELSE 16

\* contents of the file to encrypt
PlainTexts ==
    {[i \in 1..n |-> PatternByte(p, i)] : n \in 0..MaxPlainLen,
                                           p \in {"text", "ones", "sixteens"}}

\* file_path, as a sequence of characters
PlainPaths ==
    { <<"d", "b", ".", "g", "z">>, <<"x", ".", "e", "n", "c">> }

DotEnc == <<".", "e", "n", "c">>

\* data keys KMS can generate, by number
DataKeys == {3, 200}

\* response["Plaintext"] of the data key numbered k
KeyBytes(k) == [i \in 1..KeyLength |-> (k + 5 * i) % 256]

\* lengths of the CiphertextBlob KMS returns for a data key
BlobLengths == {184, 300}

\* response["CiphertextBlob"]: the data key numbered k wrapped under the master key
KmsWrap(k, len) == [i \in 1..len |-> IF i = 1 THEN k ELSE (k + i) % 256]

\* kms_client.decrypt(CiphertextBlob=blob)["Plaintext"]
KmsUnwrap(blob) == KeyBytes(blob[1])

\* values of secrets.token_bytes(16)
Ivs == {[i \in 1..IvLength |-> 0], [i \in 1..IvLength |-> (37 * i) % 256]}

\* struct.pack(">I", n)
Pack32(n) ==
    <<(n \div 16777216) % 256, (n \div 65536) % 256, (n \div 256) % 256, n % 256>>

\* struct.unpack(">I", b)[0]
Unpack32(b) == b[1] * 16777216 + b[2] * 65536 + b[3] * 256 + b[4]

\* bitwise exclusive or of two bytes
RECURSIVE BitXor(_, _)
BitXor(a, b) ==
    IF a = 0 THEN b
    ELSE IF b = 0 THEN a
    ELSE ((a + b) % 2) + 2 * BitXor(a \div 2, b \div 2)

XorBlock(a, b) == [i \in 1..BlockSize |-> BitXor(a[i], b[i])]

\* The block cipher under a key: a keyed permutation of 16-byte blocks that
\* stands for AES (bytes rotated by one position, the key bytes added)
BlockEncrypt(key, block) ==
    [i \in 1..BlockSize |-> (block[(i % BlockSize) + 1] + key[i]) % 256]

BlockDecrypt(key, block) ==
    [j \in 1..BlockSize |->
        LET i == IF j = 1 THEN BlockSize ELSE j - 1 IN
            (block[i] - key[i] + 256) % 256]

\* padding.PKCS7(128).padder(): 1..16 bytes, each the number of bytes added
Pkcs7Pad(data) ==
    LET n == BlockSize - (Len(data) % BlockSize) IN
        data \o [i \in 1..n |-> n]

\* unpadder: is the padding well formed
Pkcs7Valid(data) ==
    /\ Len(data) > 0
    /\ Len(data) % BlockSize = 0
    /\ LET n == data[Len(data)] IN
        /\ n \in 1..BlockSize
        /\ \A i \in (Len(data) - n + 1)..Len(data) : data[i] = n

\* unpadder.update(...) + unpadder.finalize()
Pkcs7Unpad(data) == SubSeq(data, 1, Len(data) - data[Len(data)])

BlockAt(data, b) == SubSeq(data, (b - 1) * BlockSize + 1, b * BlockSize)

\* Cipher(AES(key), CBC(iv)).encryptor(): each block is mixed with the
\* previous ciphertext block (the iv for the first) and then encrypted
RECURSIVE CbcEncryptFrom(_, _, _, _)
CbcEncryptFrom(key, prev, data, b) ==
    IF (b - 1) * BlockSize >= Len(data) THEN <<>>
    ELSE LET c == BlockEncrypt(key, XorBlock(BlockAt(data, b), prev)) IN
         c \o CbcEncryptFrom(key, c, data, b + 1)

CbcEncrypt(key, iv, data) == CbcEncryptFrom(key, iv, data, 1)

\* Cipher(AES(key), CBC(iv)).decryptor()
RECURSIVE CbcDecryptFrom(_, _, _, _)
CbcDecryptFrom(key, prev, data, b) ==
    IF (b - 1) * BlockSize >= Len(data) THEN <<>>
    ELSE LET c == BlockAt(data, b) IN
         XorBlock(BlockDecrypt(key, c), prev) \o CbcDecryptFrom(key, c, data, b + 1)

CbcDecrypt(key, iv, data) == CbcDecryptFrom(key, iv, data, 1)

\* the bytes encrypt_file writes: the two length-prefixed fields, the ciphertext
EnvelopeBytes(encrypted_key, iv, ciphertext) ==
    Pack32(Len(encrypted_key)) \o encrypted_key \o Pack32(Len(iv)) \o iv \o ciphertext

\* f.read(n) at offset `at` (the bytes after position `at`, n of them at most)
ReadAt(file, at, n) ==
    SubSeq(file, at + 1, IF at + n <= Len(file) THEN at + n ELSE Len(file))

\* what decrypt_file reads from the encrypted file
ParseEnvelope(file) ==
    LET encrypted_key_length == Unpack32(ReadAt(file, 0, 4))
        encrypted_key == ReadAt(file, 4, encrypted_key_length)
        iv_at == 4 + Len(encrypted_key)
        iv_length == Unpack32(ReadAt(file, iv_at, 4))
        iv == ReadAt(file, iv_at + 4, iv_length)
        rest_at == iv_at + 4 + Len(iv)
    IN  [encrypted_key |-> encrypted_key, iv |-> iv,
         ciphertext |-> ReadAt(file, rest_at, Len(file))]

\* file_path.endswith(".enc")
EndsWithEnc(path) ==
    /\ Len(path) >= Len(DotEnc)
    /\ SubSeq(path, Len(path) - Len(DotEnc) + 1, Len(path)) = DotEnc

\* Both calls before encrypt_file is entered
EnvelopeStart(path, plaintext) ==
    [pc |-> "generate_data_key",
     file_path |-> path,               \* argument of encrypt_file
     plaintext |-> plaintext,          \* contents of file_path
     plaintext_key |-> <<>>,           \* response["Plaintext"]
     encrypted_key |-> <<>>,           \* response["CiphertextBlob"]
     iv |-> <<>>,
     encrypted_file |-> <<>>,          \* f"{file_path}.enc"
     encrypted_bytes |-> <<>>,         \* contents of encrypted_file
     written |-> FALSE,                \* encrypted_file exists
     kms_error |-> FALSE,              \* a KMS call raised ClientError
     encrypt_result |-> "none",        \* none, returned, EncryptionFailedError
     decrypted_file |-> <<>>,          \* path returned by decrypt_file
     decrypted_bytes |-> <<>>,         \* contents of decrypted_file
     decrypt_result |-> "none"]        \* none, returned, EncryptionFailedError

EnvelopeIdle == [EnvelopeStart(<<>>, <<>>) EXCEPT !.pc = "idle"]

\* a caller encrypts a file
encrypt_file_call ==
    /\ ef.pc = "idle"
    /\ \E path \in PlainPaths, x \in PlainTexts : ef' = EnvelopeStart(path, x)
    /\ UNCHANGED <<s3, rw, recVars, bakVars, retVars, verVars, cliVars, keyVars, rateVars>>

\* Step 1: kms_client.generate_data_key(KeyId, KeySpec="AES_256")
encrypt_file_generate_data_key ==
    /\ ef.pc = "generate_data_key"
    /\ \/ \E k \in DataKeys, len \in BlobLengths :
            ef' = [ef EXCEPT !.pc = "write",
                             !.encrypted_file = ef.file_path \o DotEnc,
                             !.plaintext_key = KeyBytes(k),
                             !.encrypted_key = KmsWrap(k, len)]
       \/ ef' = [ef EXCEPT !.pc = "done", !.kms_error = TRUE,       \* ClientError
                           !.encrypted_file = ef.file_path \o DotEnc,
                           !.encrypt_result = "EncryptionFailedError"]
    /\ UNCHANGED <<s3, rw, recVars, bakVars, retVars, verVars, cliVars, keyVars, rateVars>>

\* Steps 2 and 3: read, pad, encrypt under a fresh iv, write the encrypted file
encrypt_file_write ==
    /\ ef.pc = "write"
    /\ \E iv \in Ivs :
        ef' = [ef EXCEPT !.pc = "log", !.iv = iv, !.written = TRUE,
                         !.encrypted_bytes =
                             EnvelopeBytes(ef.encrypted_key, iv,
                                 CbcEncrypt(ef.plaintext_key, iv,
                                            Pkcs7Pad(ef.plaintext)))]
    /\ UNCHANGED <<s3, rw, recVars, bakVars, retVars, verVars, cliVars, keyVars, rateVars>>

\* "Log success": the overhead is (encrypted_size - original_size) /
\* original_size, a ZeroDivisionError for an empty file, which "except
\* Exception" turns into EncryptionFailedError; otherwise return encrypted_file
encrypt_file_return ==
    /\ ef.pc = "log"
    /\ LET original_size == Len(ef.plaintext) IN
        ef' = IF original_size = 0
              THEN [ef EXCEPT !.pc = "done", !.encrypt_result = "EncryptionFailedError"]
              ELSE [ef EXCEPT !.pc = "encrypted", !.encrypt_result = "returned"]
    /\ UNCHANGED <<s3, rw, recVars, bakVars, retVars, verVars, cliVars, keyVars, rateVars>>

\* decrypt_file(encrypted_file): the suffix test, the path, the parse, and
\* kms_client.decrypt of the wrapped key
decrypt_file_read ==
    /\ ef.pc = "encrypted"
    /\ IF ~EndsWithEnc(ef.encrypted_file)
       THEN ef' = [ef EXCEPT !.pc = "done", !.decrypt_result = "EncryptionFailedError"]
       ELSE \/ ef' = [ef EXCEPT !.pc = "decrypt",
                               !.decrypted_file =
                                   SubSeq(ef.encrypted_file, 1, Len(ef.encrypted_file) - 4)]
            \/ ef' = [ef EXCEPT !.pc = "done", !.kms_error = TRUE,  \* ClientError
                               !.decrypt_result = "EncryptionFailedError"]
    /\ UNCHANGED <<s3, rw, recVars, bakVars, retVars, verVars, cliVars, keyVars, rateVars>>

\* Step 2 of decrypt_file: decrypt, remove the padding, write the file
decrypt_file_write ==
    /\ ef.pc = "decrypt"
    /\ LET parsed == ParseEnvelope(ef.encrypted_bytes)
           plaintext_key == KmsUnwrap(parsed.encrypted_key)
           padded_plaintext == CbcDecrypt(plaintext_key, parsed.iv, parsed.ciphertext)
       IN  ef' = IF Pkcs7Valid(padded_plaintext)
                 THEN [ef EXCEPT !.pc = "done", !.decrypt_result = "returned",
                                 !.decrypted_bytes = Pkcs7Unpad(padded_plaintext)]
                 ELSE [ef EXCEPT !.pc = "done",                     \* ValueError
                                 !.decrypt_result = "EncryptionFailedError"]
    /\ UNCHANGED <<s3, rw, recVars, bakVars, retVars, verVars, cliVars, keyVars, rateVars>>

EnvelopeInit == ef = EnvelopeIdle

EnvelopeNext ==
    \/ encrypt_file_call
    \/ encrypt_file_generate_data_key
    \/ encrypt_file_write
    \/ encrypt_file_return
    \/ decrypt_file_read
    \/ decrypt_file_write

ToolsInit ==
    /\ CommandInit
    /\ KeyInit
    /\ RateInit
    /\ EnvelopeInit

----------------------------------------------------------------------------
(* Specifications *)

\* The recovery service against an object store holding any retained objects
InitRecovery ==
    /\ s3 \in [Keys -> ObjectStates]
    /\ RecoveryInit
    /\ BackupInit
    /\ RetryInit
    /\ RetentionInit
    /\ VerifyInit
    /\ ToolsInit

SpecRecovery == InitRecovery /\ [][RecoveryNext]_vars

\* The daily backup job against an initially empty bucket
InitBackup ==
    /\ s3 = [k \in Keys |-> NoObject]
    /\ RecoveryInit
    /\ BackupInit
    /\ RetryInit
    /\ RetentionInit
    /\ VerifyInit
    /\ ToolsInit

SpecBackup == InitBackup /\ [][BackupNext]_vars

\* Calls of decorated functions, one at a time
InitRetry ==
    /\ s3 = [k \in Keys |-> NoObject]
    /\ RecoveryInit
    /\ BackupInit
    /\ RetryInit
    /\ RetentionInit
    /\ VerifyInit
    /\ ToolsInit

SpecRetry == InitRetry /\ [][RetryNext]_vars

KeyIndex(k) == CHOOSE i \in 1..Len(KeyOrder) : KeyOrder[i] = k

\* ten daily objects: five dated 2025-10-13..17 and five dated 2025-11-17..21
TenDailyObjects ==
    {i \in 1..Len(KeyOrder) :
        /\ KeyOrder[i][1] = Environment
        /\ KeyOrder[i][2].kind = "ymd"
        /\ \/ KeyOrder[i][2].m = 10 /\ KeyOrder[i][2].d \in 13..17
           \/ KeyOrder[i][2].m = 11 /\ KeyOrder[i][2].d \in 17..21}

\* the bucket holding the objects stored under the keys numbered in P
BucketHolding(P) ==
    [k \in RetentionKeys |->
        IF KeyIndex(k) \in P THEN RetainedObject(InitialSize(KeyIndex(k)))
        ELSE NoObject]

\* Retention sweeps, one after another, over a bucket that starts with any few
\* objects of KeyOrder, or with the ten daily objects
InitRetention ==
    /\ \E P \in SUBSET (1..Len(KeyOrder)) :
        /\ Cardinality(P) <= MaxObjects \/ P = TenDailyObjects
        /\ s3 = BucketHolding(P)
    /\ RecoveryInit
    /\ BackupInit
    /\ RetryInit
    /\ RetentionInit
    /\ VerifyInit
    /\ ToolsInit

SpecRetention == InitRetention /\ [][RetentionNext]_vars

\* Calls of verify_upload_integrity against a bucket in any state
InitVerify ==
    /\ s3 \in [Keys -> ObjectStates]
    /\ RecoveryInit
    /\ BackupInit
    /\ RetryInit
    /\ RetentionInit
    /\ VerifyInit
    /\ ToolsInit

SpecVerify == InitVerify /\ [][VerifyNext]_vars

\* The operator's command, run again and again, as the only caller of the
\* recovery service, over a bucket in any state
SpecCommand == InitRecovery /\ [][CommandNext \/ WorkflowNext]_vars

\* Key derivation for any day and environment
SpecKeys == InitBackup /\ [][KeyNext]_vars

\* Calls of get_success_rate, each over a table of any few rows
SpecRate == InitBackup /\ [][RateNext]_vars

\* encrypt_file of any file, then decrypt_file of the file it returned
SpecEnvelope == InitBackup /\ [][EnvelopeNext]_vars

\* a run of the daily backup task has come to its step 3: create_backup and
\* encrypt_file, which leave the bucket alone, are behind it
run_reaches_upload ==
    /\ job.pc \in {"idle", "ledger", "task_except"}
    /\ \E d \in BackupDates, c \in Digests :
        job' = [JobStart(0, 0, 0, d) EXCEPT
                    !.pc = "upload", !.checksum = c, !.cb = "success",
                    !.scratch = "exists", !.temp_dir = "set",
                    !.trace = <<"dump", "compress", "checksum", "encrypt">>,
                    !.completed = {"dump", "compress", "checksum", "encrypt"}]
    /\ UNCHANGED <<s3, rw, recVars, retVars, verVars, toolVars, ledger, alerts, swallowed>>

\* the steps of backup runs that touch the bucket
UploadNext ==
    \/ run_reaches_upload
    \/ upload_to_s3
    \/ verify_upload_integrity

\* the objects dated 2025-10-02, 2025-10-13 and 2025-11-02 of this environment
\* and the one dated 2025-10-13 of another
InterleavedObjects ==
    {i \in 1..Len(KeyOrder) :
        \/ KeyOrder[i] \in {GenerateS3Key(Environment, Date(2025, 10, 2)),
                             GenerateS3Key(Environment, Date(2025, 10, 13)),
                             GenerateS3Key(Environment, Date(2025, 11, 2))}
        \/ KeyOrder[i][1] # Environment}

\* a bucket that starts with any of those objects
InitRetentionAndUpload ==
    /\ \E P \in SUBSET InterleavedObjects : s3 = BucketHolding(P)
    /\ RecoveryInit
    /\ BackupInit
    /\ RetryInit
    /\ RetentionInit
    /\ VerifyInit
    /\ ToolsInit

\* Retention sweeps interleaved with the uploads and verifications of backup
\* runs, no lock between them
SpecRetentionAndUpload == InitRetentionAndUpload /\ [][RetentionNext \/ UploadNext]_vars

\* a bucket holding, in any state, the objects of the days that have a backup
InitRetentionAndRecovery ==
    /\ \E held \in [Keys -> ObjectStates] :
        s3 = [k \in RetentionKeys |-> IF k \in Keys THEN held[k] ELSE NoObject]
    /\ RecoveryInit
    /\ BackupInit
    /\ RetryInit
    /\ RetentionInit
    /\ VerifyInit
    /\ ToolsInit

\* Retention sweeps interleaved with recovery workflows, no lock between them
SpecRetentionAndRecovery ==
    InitRetentionAndRecovery
        /\ [][RetentionNext \/ full_recovery_workflow_call \/ WorkflowNext]_vars

\* a caller (the task, or any other) invokes create_backup; position "encrypt"
\* is the call returned to its caller, "task_except" BackupFailedError raised
create_backup_call ==
    /\ job.pc \in {"idle", "encrypt", "task_except"}
    /\ job' = JobStart(0, 0, 0, NoDate)
    /\ UNCHANGED <<s3, rw, recVars, retVars, verVars, toolVars, ledger, alerts, swallowed>>

CreateBackupNext ==
    \/ create_backup_call
    \/ create_backup_mkdtemp
    \/ execute_pg_dump
    \/ compress_backup
    \/ calculate_checksum
    \/ create_backup_return
    \/ create_backup_except

\* Calls of create_backup and of the recovery service, as independent
\* executions, over a bucket in any state
SpecUtilities == InitRecovery /\ [][CreateBackupNext \/ RecoveryNext]_vars

----------------------------------------------------------------------------
(* Properties of the recovery service *)

IsPrefixOf(s, t) ==
    /\ Len(s) <= Len(t)
    /\ \A i \in 1..Len(s) : s[i] = t[i]

\* C1: a call of restore_database, direct or through full_recovery_workflow,
\* with target_db = "production" and skip_confirmation = FALSE never invokes
\* psql and ends with RestoreFailed.
C1_ProductionWithoutConfirmationFails ==
    (rPc # "idle" /\ rTargetDb = "production" /\ ~rSkip) =>
        /\ psqlLog = <<>>
        /\ rResult # "returned"
        /\ (rPc = "done" => rResult = "RestoreFailed")

\* C1 witness: a workflow run for production without confirmation got as far as
\* the gate and was rejected there.
C1_Witness ==
    /\ rPc = "done"
    /\ rVia = "workflow"
    /\ rTargetDb = "production"
    /\ ~rSkip
    /\ "DECOMPRESS" \in rCompleted
    /\ rTrace = WorkflowOrder
    /\ rResult = "RestoreFailed"

\* C2: whenever psql is invoked against the primary (non-staging) database,
\* skip_confirmation was true, whatever target_db and backup_date were.
C2_PrimaryRestoreOnlyWithSkipConfirmation ==
    \A i \in 1..Len(psqlLog) :
        psqlLog[i].dbname = DbName => psqlLog[i].skip_confirmation

\* C4: a workflow run enters its states only in the order LOCATE, DOWNLOAD,
\* DECRYPT, DECOMPRESS, RESTORE, CLEANUP, each one only after all earlier ones
\* completed without error (CLEANUP, last, from any of them), and psql runs
\* only after DECOMPRESS completed.
C4_RecoveryStepsInOrder ==
    rVia = "workflow" =>
        /\ \A i \in 1..Len(rTrace) :
            IF rTrace[i] = "CLEANUP"
            THEN i = Len(rTrace)
            ELSE /\ i < Len(WorkflowOrder)
                 /\ rTrace[i] = WorkflowOrder[i]
                 /\ \A j \in 1..(i - 1) : WorkflowOrder[j] \in rCompleted
        /\ \A i \in 1..Len(psqlLog) :
            {"LOCATE", "DOWNLOAD", "DECRYPT", "DECOMPRESS"} \subseteq psqlLog[i].after

\* C4 witness: a workflow run that went through every state and restored.
C4_Witness ==
    /\ rVia = "workflow"
    /\ rPc = "done"
    /\ rResult = "returned"
    /\ Len(psqlLog) = 1
    /\ rTrace = WorkflowOrder

\* C5: when a workflow run has returned or raised, the temp directory it
\* created no longer exists, and CLEANUP was the last state it entered.
C5_TempDirGoneWhenWorkflowEnds ==
    (rVia = "workflow" /\ rPc = "done") =>
        /\ rTempDir # "exists"
        /\ rTrace # <<>>
        /\ rTrace[Len(rTrace)] = "CLEANUP"

\* C5 witness: a run that failed after its temp directory was created (here in
\* the restore utility) and has removed it.
C5_Witness ==
    /\ rVia = "workflow"
    /\ rPc = "done"
    /\ rResult = "RestoreFailed"
    /\ rTempDir = "removed"
    /\ Len(psqlLog) = 1

----------------------------------------------------------------------------
(* Properties of the daily backup job *)

\* C3: within one backup run the steps start only in the order dump, compress,
\* checksum, encrypt, upload, verify, ledger write, each one only after every
\* earlier one completed without error; so upload follows a completed dump,
\* compression, checksum and encryption, and verification a completed upload.
C3_BackupStepsInOrder ==
    /\ IsPrefixOf(job.trace, PipelineOrder)
    /\ \A i \in 1..Len(job.trace) :
        \A j \in 1..(i - 1) : PipelineOrder[j] \in job.completed

\* C3 witness: a run that went through the whole pipeline.
C3_Witness ==
    /\ job.trace = PipelineOrder
    /\ job.result = "success"

\* C6: when create_backup has raised BackupFailed its scratch directory is
\* gone; when it has returned, the directory exists and is the caller's temp_dir.
C6_ScratchRemovedWhenCreateBackupFails ==
    /\ (job.cb = "BackupFailed" => job.scratch # "exists")
    /\ (job.pc = "encrypt" =>
            /\ job.cb = "success"
            /\ job.scratch = "exists"
            /\ job.temp_dir = "set")

\* C7: once create_backup has returned successfully, the scratch directory is
\* removed by the time the task attempt ends, on the success path and after a
\* failure of encryption, upload, verification or the ledger write.
C7_ScratchRemovedWhenAttemptEnds ==
    (job.cb = "success" /\ job.pc \in {"task_retry", "done"}) =>
        job.scratch = "removed"

\* C7 witness: an attempt whose ledger write failed, at its end.
C7_Witness ==
    /\ job.cb = "success"
    /\ job.pc = "task_retry"
    /\ job.exc = "DatabaseError"
    /\ job.scratch = "removed"

FailedRowOf(trigger, run) ==
    \E i \in 1..Len(ledger) :
        /\ ledger[i].status = "failed"
        /\ ledger[i].trigger = trigger
        /\ ledger[i].run = run
        /\ ledger[i].error_len <= ErrorMessageLimit

CriticalAlertOf(trigger, run) ==
    \E kind \in {"task_failed", "retries_exhausted"} :
        <<trigger, run, kind>> \in alerts

\* C8 as stated: the pipeline runs at most twice per trigger, and when the run
\* after the retry has failed, a critical alert was raised and a failed row
\* with an error message of at most 500 characters is in the ledger.
C8_FailedRowPersistedAfterRetry ==
    /\ job.runs <= TaskMaxRetries + 1
    /\ (job.pc = "done" /\ job.result # "success") =>
        /\ job.runs = TaskMaxRetries + 1
        /\ CriticalAlertOf(job.trigger, job.runs)
        /\ FailedRowOf(job.trigger, job.runs)

\* C8 amended: as above, except that the failed row is in the ledger unless
\* its own write failed, in which case that failure was logged and swallowed;
\* every failed row carries an error message of at most 500 characters.
C8_RetriedOnceThenAlertAndBestEffortRow ==
    /\ job.runs <= TaskMaxRetries + 1
    /\ \A i \in 1..Len(ledger) : ledger[i].error_len <= ErrorMessageLimit
    /\ (job.pc = "done" /\ job.result # "success") =>
        /\ job.runs = TaskMaxRetries + 1
        /\ CriticalAlertOf(job.trigger, job.runs)
        /\ \/ FailedRowOf(job.trigger, job.runs)
           \/ <<job.trigger, job.runs>> \in swallowed

\* C8 witness: both runs of a trigger failed, the second with a message longer
\* than the limit, whose row was written truncated.
C8_Witness ==
    /\ job.pc = "done"
    /\ job.result # "success"
    /\ job.runs = TaskMaxRetries + 1
    /\ job.msg_len > ErrorMessageLimit
    /\ FailedRowOf(job.trigger, job.runs)
    /\ \E i \in 1..Len(ledger) :
        /\ ledger[i].run = job.runs
        /\ ledger[i].error_len = ErrorMessageLimit

----------------------------------------------------------------------------
(* Properties of the retry wrapper *)

\* C9: a call of a decorated object-store or key-management method raises only
\* after the method was invoked max_retries + 1 = 4 times, i.e. a transient
\* failure of the underlying service is re-attempted up to 3 more times.
C9_ServiceCallsRetriedBeforeRaising ==
    (rw.fn \in ServiceFns /\ rw.result = "raised") =>
        rw.calls = ServiceMaxRetries + 1

OnlyRetryableFailures ==
    \A i \in 1..Len(rw.fails) : rw.fails[i] \in rw.exceptions

\* C10: for max_retries = n >= 0 and a function raising only retryable
\* failures, the function is invoked at most n + 1 times; the call returns
\* after exactly k + 1 invocations when the function failed k <= n times and
\* then succeeded, and raises after exactly n + 1 invocations when it always
\* failed.
C10_InvocationCount ==
    (rw.max_retries >= 0 /\ OnlyRetryableFailures) =>
        /\ rw.calls <= rw.max_retries + 1
        /\ rw.result = "returned" =>
            /\ rw.calls = Len(rw.fails) + 1
            /\ Len(rw.fails) <= rw.max_retries
        /\ rw.result = "raised" =>
            /\ rw.calls = rw.max_retries + 1
            /\ Len(rw.fails) = rw.max_retries + 1
        /\ rw.result = "none" => rw.calls = Len(rw.fails)

\* C10 witness: max_retries = 3, two retryable failures, then success on the
\* third invocation.
C10_Witness ==
    /\ rw.max_retries = 3
    /\ rw.fails = <<"TransientError", "TransientError">>
    /\ rw.result = "returned"
    /\ rw.calls = 3

\* C11: a failure whose kind is not in the retryable set leaves the wrapper at
\* once: it is the last invocation of the call, it is the exception raised, and
\* no sleep follows it, on the first attempt and on a retry attempt alike.
C11_NonRetryableFailurePropagatesAtOnce ==
    \A i \in 1..Len(rw.fails) :
        rw.fails[i] \notin rw.exceptions =>
            /\ i = Len(rw.fails)
            /\ rw.calls = i
            /\ rw.pc = "done"
            /\ rw.result = "raised"
            /\ rw.raised = rw.fails[i]
            /\ Len(rw.slept) = i - 1

\* C11 witness: a non-retryable failure on the first retry, after a retryable
\* failure of the first attempt and one sleep.
C11_Witness ==
    /\ rw.fails = <<"TransientError", "ValueError">>
    /\ rw.max_retries = 3
    /\ rw.result = "raised"
    /\ rw.raised = "ValueError"
    /\ Len(rw.slept) = 1

\* C12: when every invocation failed with a retryable failure and the call
\* raised, the exception raised is the one of the last invocation, number
\* max_retries + 1.
C12_LastFailurePropagates ==
    (rw.result = "raised" /\ OnlyRetryableFailures) =>
        /\ Len(rw.fails) = rw.max_retries + 1
        /\ rw.raised = rw.fails[rw.max_retries + 1]

\* C12 witness: three failures, the last of a different kind than the first
\* two, and the last one raised.
C12_Witness ==
    /\ rw.max_retries = 2
    /\ rw.fails = <<"TransientError", "TransientError", "NetworkError">>
    /\ rw.result = "raised"
    /\ rw.raised = "NetworkError"

RECURSIVE SeqSum(_)
SeqSum(q) == IF q = <<>> THEN 0 ELSE q[1] + SeqSum(Tail(q))

\* the k-th entry of a schedule whose final delay repeats
ScheduledDelay(k, delays) ==
    IF k <= Len(delays) THEN delays[k] ELSE delays[Len(delays)]

\* C13: the k-th sleep of a call (k = 1..max_retries) lasts the k-th scheduled
\* delay, the final delay repeating when the schedule is shorter; every sleep
\* comes after a failed invocation and before the next one, none before the
\* first attempt; with max_retries = 3 and delays (2, 4, 8) s one call sleeps
\* at most 14 s in total.
C13_DelaySchedule ==
    /\ Len(rw.slept) <= rw.max_retries
    /\ \A k \in 1..Len(rw.slept) : rw.slept[k] = ScheduledDelay(k, rw.delays)
    /\ rw.calls = 0 => rw.slept = <<>>
    /\ rw.calls > 0 =>
        Len(rw.slept) = IF rw.pc = "retry" THEN rw.calls ELSE rw.calls - 1
    /\ (rw.max_retries = ServiceMaxRetries /\ rw.delays = ServiceDelays) =>
        SeqSum(rw.slept) <= 14000

\* C13 witness: three retries on a schedule of two delays; the third sleep
\* repeats the final delay.
C13_Witness ==
    /\ rw.max_retries = 3
    /\ rw.delays = <<500, 1000>>
    /\ rw.slept = <<500, 1000, 1000>>
    /\ rw.result = "raised"

----------------------------------------------------------------------------
(* Properties of the retention sweep *)

Selected(obj) ==
    \E i \in 1..Len(sweep.backups_to_delete) : sweep.backups_to_delete[i] = obj

ListedKeys == {sweep.contents[i].Key : i \in 1..Len(sweep.contents)}

SelectedKeys ==
    {sweep.backups_to_delete[i].Key : i \in 1..Len(sweep.backups_to_delete)}

DailyKeys(m, days) ==
    {<<Environment, YmdSeg(2025, m, d), BackupFile>> : d \in days}

MalformedKeys ==
    {<<"production", EmptySeg>>,
     <<"production", YmdSeg(2025, 2, 30), BackupFile>>,
     <<"production", YmdSeg(2025, 13, 1), BackupFile>>,
     <<"production", WordSeg, BackupFile>>}

\* C15: no step of any sweep removes an object with a malformed key, such an
\* object is never selected and delete_object never called with its key, and
\* an expired object listed after a malformed key is still selected.
C15_MalformedKeysSkippedNeverDeleted ==
    /\ [](/\ MalformedKeys \cap SelectedKeys = {}
          /\ \A i \in 1..Len(sweep.attempted) :
                sweep.attempted[i] \notin MalformedKeys
          /\ \A i \in 1..Len(sweep.contents) :
                \A j \in (i + 1)..Len(sweep.contents) :
                    (/\ sweep.contents[i].Key \in MalformedKeys
                     /\ sweep.contents[j].Key \notin MalformedKeys
                     /\ ShouldDelete(sweep.contents[j].Key[2], sweep.now)) =>
                        Selected(sweep.contents[j]))
    /\ [][\A k \in MalformedKeys : s3[k].present => s3'[k].present]_vars

\* C15 witness: a sweep that listed the key "production/" first, deleted an
\* expired object listed after it, and left the malformed key in the bucket.
C15_Witness ==
    /\ sweep.pc = "done"
    /\ Len(sweep.contents) >= 2
    /\ sweep.contents[1].Key = <<"production", EmptySeg>>
    /\ sweep.result.deleted_count >= 1
    /\ s3[<<"production", EmptySeg>>].present

\* C16: when a sweep has ended, delete_object was called for every selected
\* object, and the deleted_count and reclaimed size it returns are the number
\* and total size of the objects whose delete succeeded.
C16_BestEffortDeletionCountsSuccesses ==
    sweep.pc = "done" =>
        /\ sweep.attempted =
               [i \in 1..Len(sweep.backups_to_delete) |->
                    sweep.backups_to_delete[i].Key]
        /\ sweep.result.deleted_count = Len(sweep.removed)
        /\ sweep.result.reclaimed_space =
               SeqSum([i \in 1..Len(sweep.removed) |-> sweep.removed[i].Size])

----------------------------------------------------------------------------
(* Properties of verify_upload_integrity *)

\* the checksum metadata stored with the object at key k, "" when there is none
StoredChecksum(k) == IF s3[k].present THEN s3[k].checksum ELSE ""

\* C17 as stated: a finished call has raised IntegrityCheckFailed iff the stored
\* checksum is absent, empty or different from the expected one (carrying both
\* values on mismatch), and has returned true iff it is present and equal.
C17_IntegrityCheckFailedIffAbsentOrDifferent ==
    vc.pc = "done" =>
        LET stored == StoredChecksum(vc.s3_key) IN
            /\ vc.result = "IntegrityCheckFailedError" <=>
                    (stored = "" \/ stored # vc.expected_checksum)
            /\ vc.result = "True" <=>
                    (stored # "" /\ stored = vc.expected_checksum)
            /\ (stored # "" /\ stored # vc.expected_checksum) =>
                    vc.carried = <<vc.expected_checksum, stored>>

\* C17 amended: the two equivalences hold for the calls whose head_object
\* answered; a call whose object is missing, or whose head_object failed with a
\* client error, has raised BackupFailed instead.
C17_VerifyOutcomeWhenMetadataFetched ==
    vc.pc = "done" =>
        LET stored == StoredChecksum(vc.s3_key) IN
            /\ vc.result \in {"True", "IntegrityCheckFailedError", "BackupFailedError"}
            /\ ~s3[vc.s3_key].present => vc.result = "BackupFailedError"
            /\ vc.result # "BackupFailedError" =>
                /\ vc.result = "IntegrityCheckFailedError" <=>
                        (stored = "" \/ stored # vc.expected_checksum)
                /\ vc.result = "True" <=>
                        (stored # "" /\ stored = vc.expected_checksum)
                /\ (stored # "" /\ stored # vc.expected_checksum) =>
                        vc.carried = <<vc.expected_checksum, stored>>

\* C17 witness: stored checksum c2 against expected c1, IntegrityCheckFailed
\* raised with both values.
C17_Witness ==
    /\ vc.pc = "done"
    /\ vc.expected_checksum = "c1"
    /\ StoredChecksum(vc.s3_key) = "c2"
    /\ vc.result = "IntegrityCheckFailedError"
    /\ vc.carried = <<"c1", "c2">>

----------------------------------------------------------------------------
(* Properties of recovery: integrity and the utilities *)

C19_LocateFailsWithoutStoredChecksum ==
    (rVia = "workflow" /\ rBackupDate \in BackupDateTexts
        /\ StoredChecksum(S3Key(Environment, rBackupDate)) = "") =>
            /\ rTempDir = "None"
            /\ rDigest = ""
            /\ \A i \in 1..Len(rTrace) : rTrace[i] \in {"LOCATE", "CLEANUP"}
            /\ psqlLog = <<>>
            /\ rResult # "returned"
            /\ rPc = "done" => rResult = "RestoreFailed"

\* C19 witness: the object exists, its checksum metadata is empty, and the run
\* has failed straight after LOCATE.
C19_Witness ==
    /\ rVia = "workflow"
    /\ rPc = "done"
    /\ rBackupDate \in BackupDateTexts
    /\ s3[S3Key(Environment, rBackupDate)] = StoredObject("")
    /\ rTrace = <<"LOCATE", "CLEANUP">>
    /\ rResult = "RestoreFailed"

DumpInvocations == Cardinality({i \in 1..Len(job.trace) : job.trace[i] = "dump"})

\* C20: one create_backup call invokes pg_dump at most once and one recovery
\* call invokes psql at most once; after a failed invocation the call is in its
\* failure handling or has failed, with no second invocation.
C20_UtilitiesInvokedAtMostOnce ==
    /\ DumpInvocations <= 1
    /\ Len(psqlLog) <= 1
    /\ (DumpInvocations = 1 /\ "dump" \notin job.completed) =>
        /\ job.cb # "success"
        /\ job.pc \in {"cb_except", "task_except", "task_except_cleanup",
                        "task_retry", "done"}
    /\ (Len(psqlLog) = 1 /\ "RESTORE" \notin rCompleted) =>
        /\ rPc \in {"except", "done"}
        /\ rResult # "returned"
        /\ rPc = "done" => rResult = "RestoreFailed"

\* C20 witness: a create_backup call whose pg_dump failed has raised
\* BackupFailed, and a workflow run whose psql failed has ended RestoreFailed.
C20_Witness ==
    /\ DumpInvocations = 1
    /\ "dump" \notin job.completed
    /\ job.cb = "BackupFailed"
    /\ rVia = "workflow"
    /\ Len(psqlLog) = 1
    /\ "RESTORE" \notin rCompleted
    /\ rPc = "done"
    /\ rResult = "RestoreFailed"

----------------------------------------------------------------------------
(* Properties of the ledger *)

\* the rows of the ledger written by run `r` of trigger `t`
RowsOf(t, r) ==
    {i \in 1..Len(ledger) : ledger[i].trigger = t /\ ledger[i].run = r}

\* run `r` of the current trigger has left the pipeline and its ledger write
AttemptEnded(r) ==
    \/ r < job.runs
    \/ r = job.runs /\ job.pc \in {"cleanup", "task_except_cleanup", "task_retry", "done"}

\* a pipeline step or a ledger write of the running attempt is still ahead
AttemptWorking ==
    job.pc \in {"cb_mkdtemp", "pg_dump", "compress", "checksum", "metadata",
                "cb_except", "encrypt", "upload", "verify", "ledger", "task_except"}

\* C21 as stated: every execution of the pipeline, first attempt or retry,
\* has persisted exactly one row once it has ended.
C21_ExactlyOneRowPerAttempt ==
    \A r \in 1..job.runs :
        AttemptEnded(r) => Cardinality(RowsOf(job.trigger, r)) = 1

\* C21 amended: every execution of the pipeline persists at most one row,
\* written when its pipeline steps are over, and exactly one unless the write of
\* its "failed" row itself failed and was swallowed; the ledger only grows, one
\* row at a time, and no existing row is changed or removed.
C21_LedgerAppendOnlyOneRowPerAttempt ==
    /\ [](\A r \in 1..job.runs :
            /\ Cardinality(RowsOf(job.trigger, r)) <= 1
            /\ AttemptEnded(r) =>
                   (RowsOf(job.trigger, r) = {} <=> <<job.trigger, r>> \in swallowed)
            /\ (r = job.runs /\ AttemptWorking) => RowsOf(job.trigger, r) = {})
    /\ [][IsPrefixOf(ledger, ledger') /\ Len(ledger') <= Len(ledger) + 1]_vars

\* C21 witness: a trigger whose first attempt failed and whose retry succeeded
\* has left two rows, the failed one first.
C21_Witness ==
    /\ job.pc = "done"
    /\ job.runs = 2
    /\ job.result = "success"
    /\ Len(ledger) = 2
    /\ ledger[1].status = "failed" /\ ledger[1].run = 1
    /\ ledger[2].status = "success" /\ ledger[2].run = 2

\* C22: every row of the ledger has status success or failed.
C22_StatusSuccessOrFailed ==
    \A i \in 1..Len(ledger) : ledger[i].status \in {"success", "failed"}

\* C22 witness: the ledger holds a success row and a failed row.
C22_Witness ==
    /\ \E i \in 1..Len(ledger) : ledger[i].status = "success"
    /\ \E i \in 1..Len(ledger) : ledger[i].status = "failed"

\* C28: a success row is written only by an attempt whose upload and verify
\* completed, it carries the key and checksum that attempt uploaded, and when it
\* is written the bucket holds an object at that key with that checksum (the
\* runs of this specification never overlap); a failed row has an empty key and
\* an empty checksum.
C28_SuccessRowMatchesVerifiedObject ==
    /\ [](\A i \in 1..Len(ledger) :
            ledger[i].status = "failed" =>
                ledger[i].s3_key = EmptyKey /\ ledger[i].checksum = "")
    /\ [][(Len(ledger') > Len(ledger) /\ ledger'[Len(ledger')].status = "success") =>
            LET row == ledger'[Len(ledger')] IN
                /\ {"upload", "verify"} \subseteq job.completed
                /\ row.trigger = job.trigger /\ row.run = job.runs
                /\ row.s3_key = GenerateS3Key(Environment, job.date)
                /\ row.checksum = job.checksum
                /\ s3[row.s3_key] = StoredObject(row.checksum)
                /\ s3'[row.s3_key] = StoredObject(row.checksum)]_vars

\* C28 witness: a success row is in the ledger, the object it names is in the
\* bucket with the row's checksum, and a failed row precedes it.
C28_Witness ==
    /\ Len(ledger) = 2
    /\ ledger[1].status = "failed"
    /\ ledger[2].status = "success"
    /\ ledger[2].s3_key \in Keys
    /\ s3[ledger[2].s3_key] = StoredObject(ledger[2].checksum)
    /\ ledger[2].checksum \in Digests

----------------------------------------------------------------------------
(* Where the confirmation gate sits in the recovery workflow *)

\* the workflow states entered so far
Entered == {rTrace[i] : i \in 1..Len(rTrace)}

\* the four states that precede RESTORE
BeforeRestore == {"LOCATE", "DOWNLOAD", "DECRYPT", "DECOMPRESS"}

\* C27: in a workflow call for production without skip_confirmation the gate
\* is reached only in RESTORE, after LOCATE, DOWNLOAD, DECRYPT and DECOMPRESS
\* have completed in that order with the temp directory created; the call ends
\* with the gate's rejection exactly when those four steps succeeded, and with
\* the failure of the earlier step, RESTORE never entered, otherwise.
C27_GateReachedOnlyAfterDecompress ==
    (rVia = "workflow" /\ rPc # "idle" /\ rTargetDb = "production" /\ ~rSkip) =>
        /\ psqlLog = <<>>
        /\ "RESTORE" \notin rCompleted
        /\ "RESTORE" \in Entered =>
               /\ BeforeRestore \subseteq rCompleted
               /\ IsPrefixOf(<<"LOCATE", "DOWNLOAD", "DECRYPT", "DECOMPRESS", "RESTORE">>,
                             rTrace)
               /\ rTempDir # "None"
               /\ rDigest # ""
        /\ rPc = "done" =>
               /\ rResult = "RestoreFailed"
               /\ "RESTORE" \in Entered <=> BeforeRestore \subseteq rCompleted

\* C27 witness: a production workflow without confirmation went through the
\* four steps, was rejected in RESTORE and has ended.
C27_Witness ==
    /\ rVia = "workflow" /\ rTargetDb = "production" /\ ~rSkip
    /\ rPc = "done"
    /\ rTrace = <<"LOCATE", "DOWNLOAD", "DECRYPT", "DECOMPRESS", "RESTORE", "CLEANUP">>
    /\ BeforeRestore \subseteq rCompleted
    /\ rResult = "RestoreFailed"
    /\ rTempDir = "removed"

----------------------------------------------------------------------------
(* Properties of the operator's command *)

----------------------------------------------------------------------------
(* Properties of key derivation *)

----------------------------------------------------------------------------
(* Properties of the success rate *)

\* the rows of a table that are at most `days` days old
RowsWithin(table, days) ==
    {i \in 1..Len(table) : RateNow - table[i].backup_date <= days * HoursPerDay}

\* C25: the returned rate is successful / total * 100 over the rows dated
\* within the window and over no other row, 0.0 when there is none, between 0
\* and 100, and 70.0 for seven successful and three failed rows within the
\* window.
C25_SuccessRate ==
    sr.pc = "done" =>
        LET within == RowsWithin(sr.table, sr.days)
            good == {i \in within : sr.table[i].status = "success"}
            r == sr.result
        IN  /\ r.den > 0
            /\ within = {} => r.num = 0
            /\ within # {} =>
                  r.num * Cardinality(within) = Cardinality(good) * 100 * r.den
            /\ 0 <= r.num /\ r.num <= 100 * r.den
            /\ (Cardinality(good) = 7 /\ Cardinality(within) = 10) => r.num = 70 * r.den

\* C25 witness: a call over the seven successful and three failed rows, with
\* days = 30, has returned 70.
C25_Witness ==
    /\ sr.pc = "done"
    /\ sr.table = TenRowTable
    /\ sr.days = 30
    /\ sr.total = 10
    /\ sr.successful = 7
    /\ sr.result = Quotient(700, 10)

----------------------------------------------------------------------------
(* Properties of envelope encryption *)

\* the encrypted file has the layout [4-byte length][wrapped key][4-byte
\* length][iv][ciphertext], lengths big-endian
EnvelopeLaidOut ==
    LET f == ef.encrypted_bytes
        n == Len(ef.encrypted_key)
        m == Len(ef.iv)
    IN  /\ SubSeq(f, 1, 4) = <<n \div 16777216, (n \div 65536) % 256, (n \div 256) % 256, n % 256>>
        /\ SubSeq(f, 5, 4 + n) = ef.encrypted_key
        /\ SubSeq(f, 5 + n, 8 + n) = <<0, 0, 0, m>>
        /\ SubSeq(f, 9 + n, 8 + n + m) = ef.iv
        /\ m = IvLength
        /\ (Len(f) - (8 + n + m)) % BlockSize = 0
        /\ Len(f) - (8 + n + m) > Len(ef.plaintext)

\* the round trip of a call pair in which KMS answered: the file is written in
\* the layout, decrypt_file returns the plaintext, and the path it returns is
\* file_path
RoundTrips ==
    /\ ef.pc \in {"encrypted", "decrypt", "done"} =>
          /\ ef.encrypt_result = "returned"
          /\ ef.encrypted_file = ef.file_path \o <<".", "e", "n", "c">>
          /\ EnvelopeLaidOut
    /\ ef.pc = "done" =>
          /\ ef.decrypt_result = "returned"
          /\ ef.decrypted_bytes = ef.plaintext
          /\ ef.decrypted_file = ef.file_path

\* C23 as stated: for every byte string x, the empty one and those of a
\* length that is a multiple of 16 included, encrypt_file writes the layout and
\* decrypt_file of its result returns x at the original path (KMS answering).
C23_EnvelopeRoundTrip ==
    ~ef.kms_error => RoundTrips

\* what holds instead: the round trip of every file that is not empty
C23_RoundTripOfNonEmptyFiles ==
    (~ef.kms_error /\ ef.plaintext # <<>>) => RoundTrips

\* a file of 32 bytes came back from the round trip, through three blocks of
\* ciphertext
C23_RoundTripReached ==
    /\ ef.pc = "done"
    /\ Len(ef.plaintext) = 32
    /\ ef.decrypt_result = "returned"
    /\ ef.decrypted_bytes = ef.plaintext
    /\ Len(ef.encrypted_bytes) = 8 + Len(ef.encrypted_key) + IvLength + 48

----------------------------------------------------------------------------
(* Retention sweeps interleaved with backup runs *)

\* C29: an object that vanishes from the bucket was deleted by the sweep, lies
\* under the sweep's "{environment}/" prefix and carries a key date more than
\* 30 days before the sweep's now, on the first of a month, a Sunday or any
\* other day; so the object of a run of the sweep's own day, uploaded and
\* verified while the sweep runs, stays.
C29_SweepSparesRecentAndForeignObjects ==
    [][\A k \in DOMAIN s3 :
          (s3[k].present /\ ~s3'[k].present) =>
              /\ sweep.pc = "delete"
              /\ Len(k) >= 2 /\ k[1] = Environment
              /\ k[2].kind = "ymd"
              /\ ToOrdinal(sweep.now) - ToOrdinal(k[2]) > 30
              /\ k # <<Environment, YmdSeg(sweep.now.y, sweep.now.m, sweep.now.d),
                       "db_backup.sql.gz.enc">>]_vars

\* C29 witness: a sweep of 2025-11-21 listed the bucket, a run of that day
\* then uploaded and verified its object, and the sweep ended having deleted
\* an older object and left the run's object in place.
C29_Witness ==
    /\ sweep.pc = "done"
    /\ sweep.now = Date(2025, 11, 21)
    /\ sweep.deleted_count >= 1
    /\ job.pc = "ledger"
    /\ job.date = Date(2025, 11, 21)
    /\ \A i \in 1..Len(sweep.contents) :
          sweep.contents[i].Key # GenerateS3Key(Environment, job.date)
    /\ s3[GenerateS3Key(Environment, job.date)] = StoredObject(job.checksum)

----------------------------------------------------------------------------
(* Retention sweeps interleaved with recovery workflows *)

\* the object the workflow is restoring from
TargetKey == S3Key(Environment, rBackupDate)

\* the target was there when LOCATE read it and is gone, DOWNLOAD not completed
TargetDeletedBeforeDownload ==
    /\ rPc # "idle"
    /\ "LOCATE" \in rCompleted
    /\ "DOWNLOAD" \notin rCompleted
    /\ ~s3[TargetKey].present

\* what holds in every state of a workflow whose target was swept before its
\* DOWNLOAD completed, and of every psql invocation
CleanFailureWhenTargetSwept ==
    /\ TargetDeletedBeforeDownload =>
          /\ psqlLog = <<>>
          /\ rPc \notin {"decrypt", "decompress", "restore", "psql", "cleanup"}
          /\ rPc = "done" => (rResult = "RestoreFailed" /\ rTempDir # "exists")
    /\ \A i \in 1..Len(psqlLog) :
          {"LOCATE", "DOWNLOAD", "DECRYPT", "DECOMPRESS"} \subseteq psqlLog[i].after
    /\ rPc = "psql" =>
          ({"LOCATE", "DOWNLOAD", "DECRYPT", "DECOMPRESS"} \subseteq rCompleted
              /\ rDigest # "")

\* a step taken while the workflow is at DOWNLOAD and the target is gone
\* completes no download: the workflow stays there or goes to its handler
NoDownloadOfSweptTarget ==
    (rPc = "download" /\ ~s3[TargetKey].present) =>
        /\ rPc' \in {"download", "except"}
        /\ "DOWNLOAD" \notin rCompleted'
        /\ rDigest' = rDigest
        /\ psqlLog' = psqlLog

\* C30: when the sweep has deleted the target object after LOCATE succeeded
\* and before DOWNLOAD completed, the download step fails, the workflow
\* invokes no psql, ends with RestoreFailed and leaves no temp directory
\* behind; and in every interleaving psql is invoked only after DOWNLOAD,
\* DECRYPT and DECOMPRESS of that workflow completed.
C30_RecoveryFailsCleanlyWhenTargetSwept ==
    /\ []CleanFailureWhenTargetSwept
    /\ [][NoDownloadOfSweptTarget]_vars

\* C30 witness: a sweep deleted the target after LOCATE and the directory was
\* made; the download then failed and the workflow ended with RestoreFailed,
\* its directory removed.
C30_Witness ==
    /\ TargetDeletedBeforeDownload
    /\ \E i \in 1..Len(sweep.removed) : sweep.removed[i].Key = TargetKey
    /\ rTrace = <<"LOCATE", "DOWNLOAD", "CLEANUP">>
    /\ rPc = "done"
    /\ rResult = "RestoreFailed"
    /\ rTempDir = "removed"

====
